---- MODULE Spec2Model ----
(***************************************************************************)
(* Verification model of the ingestion engine of quanticity_capital:       *)
(*   - TokenBucket            (src/src/ingestion/rate_limit.py)            *)
(*   - WebsocketConsumer      (src/archive/phase1/ingestion_phase1/        *)
(*                             websocket_consumer.py)                      *)
(*   - OptionTradeHandler     (src/archive/phase1/ingestion_phase1/        *)
(*                             handlers/option_trades.py)                  *)
(*   - PriceBarAggregator     (src/src/ingestion/aggregators/              *)
(*                             price_bars.py)                              *)
(* Time is counted in whole ticks; tokens refill RefillRate per tick.      *)
(***************************************************************************)
EXTENDS Integers, Sequences, FiniteSets, TLC

(***************************************************************************)
(* Bounds of the model.                                                    *)
(***************************************************************************)
Capacity == 2
RefillRate == 1
MaxCalls == 3
MaxTime == 3
MaxCancels == 1

\* OptionTradeHandler: buffer_size and flush_interval (in ticks) of the handler,
\* messages handed to handle(), concurrent callers of handle(), clock ticks
BufferSize == 2
FlushInterval == 2
MaxTrades == 3
NumCallers == 2
MaxClock == 3

\* PriceBarAggregator: prices 1..MaxPrice, add_tick calls
MaxPrice == 3
MaxTicks == 4

\* RestScheduler: cadences of the two jobs of the catalog, requests of the first
\* job, longest latency of an HTTP call
CadenceFast == 5
CadenceSlow == 10
RequestsFast == 2
MaxLatency == 1
\* PriceHandler: handle() calls in a run
MaxMessages == 3
\* AccountService: the persist interval, the last instant of the clock, the
\* value signatures drawn
\* IngestionService: handlers shut down by stop(), collaborator calls logged
ServiceHandlerCount == 2
MaxServiceCalls == 3
\* UnusualWhalesClient: responses held ready for one fetch_endpoint call
MaxFetchResponses == 3
MaxRequestCount == 2
PersistInterval == 2
MaxAccountTime == 4
MaxSignature == 2

\* largest request size drawn: one more than the bucket can ever hold
MaxReq == Capacity + 1

CallIds == 1..MaxCalls

Min(a, b) == IF a <= b THEN a ELSE b

RECURSIVE SumSeq(_)
SumSeq(s) == IF s = <<>> THEN 0 ELSE Head(s) + SumSeq(Tail(s))

\* index of the first occurrence of x in s, 0 when absent
RECURSIVE IndexOf(_, _)
IndexOf(s, x) ==
  IF s = <<>> THEN 0
  ELSE IF Head(s) = x THEN 1
  ELSE LET r == IndexOf(Tail(s), x) IN IF r = 0 THEN 0 ELSE r + 1

\* deque.remove(x): drops the first occurrence, keeps the order of the rest
RECURSIVE RemoveFirst(_, _)
RemoveFirst(s, x) ==
  IF s = <<>> THEN <<>>
  ELSE IF Head(s) = x THEN Tail(s)
  ELSE <<Head(s)>> \o RemoveFirst(Tail(s), x)

SeqToSet(s) == {s[i] : i \in 1..Len(s)}

VARIABLES
  now,          \* time.monotonic()
  tokens,       \* TokenBucket._tokens
  last_refill,  \* TokenBucket._last_refill
  waiters,      \* TokenBucket._waiters: sequence of [id, n] (future, tokens)
  fut,          \* state of each call's future: none / pending / result / cancelled
  must_cancel,  \* calls whose task was cancelled after its future got its result
  ready,        \* event-loop ready queue of task wake-ups (FIFO, call ids)
  status,       \* each acquire call: new / waiting / done
  size,         \* each call's requested tokens
  nextCall,     \* id of the next acquire call
  ahead,        \* history: calls that were in the wait queue when the call arrived
  debitOrder,   \* history: calls in the order their tokens were debited
  doneOrder,    \* history: calls in the order they returned to (or raised in) the caller
  outcome       \* history: how each call ended: none / returned / cancelled

bucketVars == <<now, tokens, last_refill, waiters, fut, must_cancel, ready, status,
                size, nextCall, ahead, debitOrder, doneOrder, outcome>>

VARIABLES
  cpc,                  \* where run() is: loop / connecting / subscribing / listening /
                        \* receiving / dispatching / backoff / exited / cancelled
  stop_event,           \* WebsocketConsumer._stop_event
  attempt,              \* run(): attempt
  wait_time,            \* run(): wait_time of the last failure
  handlers_by_channel,  \* WebsocketConsumer._handlers_by_channel
  sent,                 \* subscription payloads sent on the current connection
  lastFrame,            \* the frame last received
  hidx,                 \* _dispatch: index of the handler to invoke next, 0 outside the loop
  calls,                \* handler invocations made for lastFrame: [h, raised]
  streamed,             \* whether the current connection has received a frame
  failReason,           \* what ended the last connection attempt
  failures,             \* history: failures so far
  consec,               \* history: failures since _consume last returned normally
  frames,               \* history: frames received so far
  connects              \* history: connections opened so far

consumerVars == <<cpc, stop_event, attempt, wait_time, handlers_by_channel, sent,
                  lastFrame, hidx, calls, streamed, failReason, failures, consec,
                  frames, connects>>

VARIABLES
  clock,       \* time.monotonic() as the option trade handler reads it
  buffer,      \* OptionTradeHandler._buffer: the trades appended, by trade id
  last_flush,  \* OptionTradeHandler._last_flush
  tpc,         \* each caller's position: idle / persisting / publishing / cancelled,
               \* and done / failed for the caller of shutdown()
  batch,       \* _flush: the local batch of each caller
  pidx,        \* _flush: index in batch of the publish call being awaited
  flushOf,     \* the index in persisted of each caller's current flush
  nextTrade,   \* id of the next message handed to handle()
  stopping,    \* IngestionService.stop() has cancelled the consumer task
  accepted,    \* history: trades appended to the buffer, in append order
  persisted,   \* history: bulk_insert_option_trades calls: [by, batch]
  published,   \* history: publish_option_trade calls: [flush, trade]
  flushDone,   \* history: flushes that ran to their end
  raisedAny,   \* history: the repository or the publisher has raised
  sdBuffer,    \* history: the buffer as shutdown() found it
  lastTradeMsg, \* history: the kind of the last message handed to handle()
  persistEnded \* history: the bulk-persist calls that ended: [flush, ok]

tradeVars == <<clock, buffer, last_flush, tpc, batch, pidx, flushOf, nextTrade,
               stopping, accepted, persisted, published, flushDone, raisedAny,
               sdBuffer, lastTradeMsg, persistEnded>>

VARIABLES
  state,       \* PriceBarAggregator._state: the current bar of each ticker, or NoBar
  nticks,      \* history: add_tick calls so far
  lastTick,    \* history: the message of the last add_tick call
  lastResult,  \* history: what that call did: [raised, completed, current]
  prevState,   \* history: _state before that call
  returned,    \* history: how often each (ticker, start minute) was returned as completed
  folded       \* history: the price of the last tick folded into each ticker's bar

barVars == <<state, nticks, lastTick, lastResult, prevState, returned, folded>>

VARIABLES
  price_handled,   \* history: PriceHandler.handle calls so far
  price_msg,       \* history: the message of the last handle call
  price_calls,     \* history: the calls that handle call made, in order
  price_outcome    \* history: how it ended: none / returned / raised

priceVars == <<price_handled, price_msg, price_calls, price_outcome>>

VARIABLES
  alert_calls,     \* history: the calls the last FlowAlertHandler.handle made, in order
  alert_raised     \* history: the call of it that raised, or "none"

alertVars == <<alert_calls, alert_raised>>

VARIABLES
  svc_step,        \* IngestionService.stop: the step in progress (0: stop not called)
  svc_raised,      \* stop() was left by an exception of a handler's shutdown
  sched_task,      \* RestScheduler._task: alive / done
  runner_task,     \* IngestionService._runner, the consumer task: alive / done
  pub_open,        \* the RedisPublisher is not closed
  repo_open,       \* the PostgresRepository is not closed
  svc_shut,        \* handlers whose shutdown() returned
  svc_log          \* history: collaborator calls: [by, on, open, runner_done]

serviceVars == <<svc_step, svc_raised, sched_task, runner_task, pub_open, repo_open,
                 svc_shut, svc_log>>

VARIABLES
  uw_retry,        \* history: retry_on_error of the last fetch_endpoint call
  uw_used,         \* history: what its HTTP requests got, in order
  uw_sleeps,       \* history: the delays it slept
  uw_result,       \* history: how it ended: none / success / failure / raised
  request_count    \* UnusualWhalesClient.request_count: requests without an error status

clientVars == <<uw_retry, uw_used, uw_sleeps, uw_result, request_count>>

VARIABLES
  acct_now,        \* what AccountService._clock returns
  acct_cache,      \* _last_summary / _last_position: the _CacheEntry of each key, or NoEntry
  acct_update,     \* history: the last update handled and the instant of the call
  acct_persisted,  \* history: that call inserted a row
  acct_prev        \* history: the cache before that call

accountVars == <<acct_now, acct_cache, acct_update, acct_persisted, acct_prev>>

VARIABLES
  spc,             \* where RestScheduler._run is: loop / jobs / building / requests /
                   \* attempt / waiting / get / sleep429 / processing / polling /
                   \* cancelled / exited
  sched_stop,      \* RestScheduler._stop_event
  jidx,            \* _run: index in self._jobs of the job the for loop is at
  ridx,            \* _execute_job: index of the request the for loop is at
  req_attempt,     \* _run_request: attempt
  backoff,         \* _run_request: backoff
  gap,             \* now - self._last_run[job] for the `now` of this tick
  since,           \* time since self._last_run[job], counted up to the job's cadence
  tick_age,        \* time since `now` was read in this tick, counted up to MaxCadence
  limiter_tokens,  \* TokenBucket._tokens of the scheduler's limiter
  limiter_age,     \* time since TokenBucket._last_refill, counted up to a full refill
  phase,           \* time.monotonic() modulo the poll interval
  executed,        \* history: the jobs _execute_job was awaited for in this tick
  sleeps,          \* history: the 429 sleeps of the current request
  procCalls,       \* history: processor invocations for the current request
  lastResponse,    \* history: the last response to the current request
  reqOutcome,      \* history: how the last request ended: none / running / processed /
                   \* abandoned / failed
  acq_done,        \* history: acquire calls of the current request that returned
  http_calls       \* history: client.get calls of the current request that returned

schedVars == <<spc, sched_stop, jidx, ridx, req_attempt, backoff, gap, since, tick_age,
               limiter_tokens, limiter_age, phase, executed, sleeps, procCalls,
               lastResponse, reqOutcome, acq_done, http_calls>>

\* what the actions of one component leave alone
notBucket == <<clientVars, serviceVars, alertVars, consumerVars, tradeVars, barVars, priceVars, schedVars, accountVars>>
notConsumer == <<clientVars, serviceVars, alertVars, bucketVars, tradeVars, barVars, priceVars, schedVars, accountVars>>
notTrades == <<clientVars, serviceVars, alertVars, bucketVars, consumerVars, barVars, priceVars, schedVars, accountVars>>
notBars == <<clientVars, serviceVars, alertVars, bucketVars, consumerVars, tradeVars, priceVars, schedVars, accountVars>>
notPrice == <<clientVars, serviceVars, alertVars, bucketVars, consumerVars, tradeVars, schedVars, accountVars>>
notSched == <<clientVars, serviceVars, alertVars, bucketVars, consumerVars, tradeVars, barVars, priceVars, accountVars>>
notAccount == <<clientVars, serviceVars, alertVars, bucketVars, consumerVars, tradeVars, barVars, priceVars, schedVars>>
notAlert == <<clientVars, serviceVars, bucketVars, consumerVars, tradeVars, barVars, priceVars, schedVars, accountVars>>
notService == <<clientVars, alertVars, bucketVars, consumerVars, tradeVars, barVars, priceVars, schedVars, accountVars>>
notClient == <<serviceVars, alertVars, bucketVars, consumerVars, tradeVars, barVars, priceVars, schedVars, accountVars>>

vars == <<clientVars, serviceVars, alertVars, bucketVars, consumerVars, tradeVars, barVars, priceVars, schedVars, accountVars>>

(***************************************************************************)
(* TokenBucket                                                             *)
(***************************************************************************)

\* __init__: a full bucket, nobody waiting
InitBucket ==
  /\ now = 0
  /\ tokens = Capacity
  /\ last_refill = 0
  /\ waiters = <<>>
  /\ fut = [i \in CallIds |-> "none"]
  /\ must_cancel = {}
  /\ ready = <<>>
  /\ status = [i \in CallIds |-> "new"]
  /\ size = [i \in CallIds |-> 0]
  /\ nextCall = 1
  /\ ahead = [i \in CallIds |-> {}]
  /\ debitOrder = <<>>
  /\ doneOrder = <<>>
  /\ outcome = [i \in CallIds |-> "none"]

\* the part of the bucket that _refill and _drain_waiters read and write
BucketState == [tokens |-> tokens, last_refill |-> last_refill, waiters |-> waiters,
                fut |-> fut, ready |-> ready, debitOrder |-> debitOrder]

\* while self._waiters and self._tokens >= self._waiters[0][1]: popleft;
\* a future that is not done is debited and given its result
RECURSIVE DrainWaiters(_)
DrainWaiters(b) ==
  IF b.waiters # <<>> /\ b.tokens >= Head(b.waiters).n
  THEN LET w == Head(b.waiters) IN
       IF b.fut[w.id] = "pending"
       THEN DrainWaiters([b EXCEPT !.waiters = Tail(b.waiters),
                                   !.tokens = b.tokens - w.n,
                                   !.fut = [b.fut EXCEPT ![w.id] = "result"],
                                   !.ready = Append(b.ready, w.id),
                                   !.debitOrder = Append(b.debitOrder, w.id)])
       ELSE DrainWaiters([b EXCEPT !.waiters = Tail(b.waiters)])
  ELSE b

\* mutant of RefillTokens: the cap at capacity is forgotten
RefillTokensUncapped(tok, refill) == tok + refill

\* self._tokens = min(self._capacity, self._tokens + refill)
RefillTokens(tok, refill) == Min(Capacity, tok + refill)

\* mutant of Refill: _last_refill is not advanced, so elapsed time is counted again
RefillKeepsClock(b, t) ==
  LET elapsed == t - b.last_refill
      refill == elapsed * RefillRate
  IN IF elapsed <= 0 THEN b
     ELSE IF refill <= 0 THEN b
     ELSE DrainWaiters([b EXCEPT !.tokens = RefillTokens(b.tokens, refill)])

\* _refill at time t
Refill(b, t) ==
  LET elapsed == t - b.last_refill
      refill == elapsed * RefillRate
  IN IF elapsed <= 0 THEN b
     ELSE IF refill <= 0 THEN b
     ELSE DrainWaiters([b EXCEPT !.tokens = RefillTokens(b.tokens, refill),
                                 !.last_refill = t])

\* mutant of FastPath: the wait queue is not looked at
FastPathIgnoresQueue(tok, n, ws) == tok >= n

\* if self._tokens >= tokens and not self._waiters
FastPath(tok, n, ws) == tok >= n /\ ws = <<>>

\* time passes
Tick ==
  /\ now < MaxTime
  /\ now' = now + 1
  /\ UNCHANGED <<tokens, last_refill, waiters, fut, must_cancel, ready, status, size,
                 nextCall, ahead, debitOrder, doneOrder, outcome>>
  /\ UNCHANGED notBucket

\* acquire(n) up to its first suspension: refill, then the fast path or the queue
Acquire(n) ==
  /\ nextCall <= MaxCalls
  /\ LET id == nextCall
         b == Refill(BucketState, now)
     IN /\ nextCall' = nextCall + 1
        /\ size' = [size EXCEPT ![id] = n]
        /\ ahead' = [ahead EXCEPT ![id] = {waiters[i].id : i \in 1..Len(waiters)}]
        /\ last_refill' = b.last_refill
        /\ ready' = b.ready
        /\ IF FastPath(b.tokens, n, b.waiters)
           THEN /\ tokens' = b.tokens - n
                /\ waiters' = b.waiters
                /\ fut' = b.fut
                /\ status' = [status EXCEPT ![id] = "done"]
                /\ debitOrder' = Append(b.debitOrder, id)
                /\ doneOrder' = Append(doneOrder, id)
                /\ outcome' = [outcome EXCEPT ![id] = "returned"]
           ELSE /\ tokens' = b.tokens
                /\ waiters' = Append(b.waiters, [id |-> id, n |-> n])
                /\ fut' = [b.fut EXCEPT ![id] = "pending"]
                /\ status' = [status EXCEPT ![id] = "waiting"]
                /\ debitOrder' = b.debitOrder
                /\ UNCHANGED <<doneOrder, outcome>>
  /\ UNCHANGED <<now, must_cancel>>
  /\ UNCHANGED notBucket

\* the `tokens` property: a refill (with its drain), never blocks
TokensProperty ==
  /\ LET b == Refill(BucketState, now)
     IN /\ tokens' = b.tokens
        /\ last_refill' = b.last_refill
        /\ waiters' = b.waiters
        /\ fut' = b.fut
        /\ ready' = b.ready
        /\ debitOrder' = b.debitOrder
  /\ UNCHANGED <<now, must_cancel, status, size, nextCall, ahead, doneOrder, outcome>>
  /\ UNCHANGED notBucket

\* the task awaiting the future is cancelled (task.cancel()): a pending future is
\* cancelled and the task is scheduled; a future that already has its result leaves
\* the task scheduled and marks it to be cancelled at its next step
Cancel(id) ==
  /\ status[id] = "waiting"
  /\ Cardinality({i \in CallIds : fut[i] = "cancelled"} \cup must_cancel) < MaxCancels
  /\ id \notin must_cancel
  /\ fut[id] \in {"pending", "result"}
  /\ IF fut[id] = "pending"
     THEN /\ fut' = [fut EXCEPT ![id] = "cancelled"]
          /\ ready' = Append(ready, id)
          /\ UNCHANGED must_cancel
     ELSE /\ must_cancel' = must_cancel \cup {id}
          /\ UNCHANGED <<fut, ready>>
  /\ UNCHANGED <<now, tokens, last_refill, waiters, status, size, nextCall, ahead,
                 debitOrder, outcome, doneOrder>>
  /\ UNCHANGED notBucket

\* the event loop runs the next scheduled task: `await future` ends, the finally
\* block removes the waiter entry if it is still queued, acquire returns or raises
Resume ==
  /\ ready # <<>>
  /\ LET id == Head(ready) IN
       /\ ready' = Tail(ready)
       /\ waiters' = RemoveFirst(waiters, [id |-> id, n |-> size[id]])
       /\ status' = [status EXCEPT ![id] = "done"]
       /\ doneOrder' = Append(doneOrder, id)
       /\ outcome' = [outcome EXCEPT ![id] =
                        IF fut[id] = "result" /\ id \notin must_cancel
                        THEN "returned" ELSE "cancelled"]
  /\ UNCHANGED <<now, tokens, last_refill, fut, must_cancel, size, nextCall, ahead,
                 debitOrder>>
  /\ UNCHANGED notBucket

NextBucket ==
  \/ Tick
  \/ \E n \in 0..MaxReq : Acquire(n)
  \/ TokensProperty
  \/ \E id \in CallIds : Cancel(id)
  \/ Resume


(***************************************************************************)
(* WebsocketConsumer                                                       *)
(***************************************************************************)

\* IngestionSettings defaults
ReconnectMin == 5
ReconnectMax == 60
ReconnectMaxAttempts == 5

\* bounds of the consumer model
MaxFailures == 6
MaxFrames == 2
MaxConnects == 2

\* the handlers handed to __init__, in registration order, and their channels
Handlers == <<"h1", "h2", "h3">>
ChannelOf(h) == CASE h = "h1" -> "A" [] h = "h2" -> "B" [] h = "h3" -> "A"
Channels == {"A", "B"}

\* the handlers constructed with a ticker filter (PriceHandler, OptionTradeHandler)
HasFilter(h) == h = "h2"

\* sorted(self._tickers) of such a handler
TargetTickers == <<"QQQ", "SPY">>

\* inbound frames: text that is not JSON, JSON that is not an object, or an object
\* with its channel / topic / stream fields ("absent", "" or a name; X is a channel
\* nobody registered) and its data / payload fields (absent, a dict, another value)
NoFrame == [kind |-> "none"]
Frames ==
  {[kind |-> "notjson"], [kind |-> "nonobject"]} \cup
  [kind : {"object"},
   channel : {"absent", "", "A", "X"},
   topic : {"absent", "A"},
   stream : {"absent", "B"},
   data : {"absent", "dict", "other"},
   payload : {"absent", "dict"}]

\* indices of the handlers registered on channel c, in registration order
RECURSIVE RegisteredOn(_, _)
RegisteredOn(hs, c) ==
  IF hs = <<>> THEN <<>>
  ELSE IF ChannelOf(Head(hs)) = c THEN <<Head(hs)>> \o RegisteredOn(Tail(hs), c)
  ELSE RegisteredOn(Tail(hs), c)

\* __init__: the registry is built from the handler list; nothing is connected
InitConsumer ==
  /\ cpc = "loop"
  /\ stop_event = FALSE
  /\ attempt = 0
  /\ wait_time = 0
  /\ handlers_by_channel = [c \in Channels |-> RegisteredOn(Handlers, c)]
  /\ sent = <<>>
  /\ lastFrame = NoFrame
  /\ hidx = 0
  /\ calls = <<>>
  /\ streamed = FALSE
  /\ failReason = "none"
  /\ failures = 0
  /\ consec = 0
  /\ frames = 0
  /\ connects = 0

\* a value `or` skips: a missing key (None) or the empty string
Falsy(v) == v \in {"absent", ""}

\* payload.get("channel") or payload.get("topic") or payload.get("stream")
ExtractChannel(f) ==
  IF ~Falsy(f.channel) THEN f.channel
  ELSE IF ~Falsy(f.topic) THEN f.topic
  ELSE f.stream

\* the data dict, else the payload dict, else the remaining fields when the key
\* "channel" is present, else None
ExtractData(f) ==
  IF f.data = "dict" THEN "data"
  ELSE IF f.payload = "dict" THEN "payload"
  ELSE IF f.channel # "absent" THEN "rest"
  ELSE "None"

\* self._handlers_by_channel.get(channel): None for an unknown channel
Lookup(reg, c) == IF c \in DOMAIN reg THEN reg[c] ELSE <<>>

\* mutant of RegistryAfterLookup: the lookup indexes the defaultdict, which
\* inserts an empty list for a channel it does not know
RegistryAfterLookupInserts(reg, c) ==
  [k \in DOMAIN reg \cup {c} |-> IF k \in DOMAIN reg THEN reg[k] ELSE <<>>]

\* the registry after self._handlers_by_channel.get(channel): get() never
\* inserts, not even into a defaultdict
RegistryAfterLookup(reg, c) == reg

\* the frames for which _dispatch reaches the registry lookup
ReachesLookup(f) ==
  /\ f.kind = "object"
  /\ ~Falsy(ExtractChannel(f))
  /\ ExtractData(f) # "None"

\* what _dispatch does with a frame before it invokes any handler:
\* "drop" (return), "raise" (an exception escapes) or "handle"
Decode(f, reg) ==
  IF f.kind = "notjson" THEN "drop"
  ELSE IF f.kind = "nonobject" THEN "raise"
  ELSE IF Falsy(ExtractChannel(f)) \/ ExtractData(f) = "None" THEN "drop"
  ELSE IF Lookup(reg, ExtractChannel(f)) = <<>> THEN "drop"
  ELSE "handle"

\* min(reconnect_min_seconds * 2 ** (attempt - 1), reconnect_max_seconds)
BackoffDelay(att) == Min(ReconnectMin * 2 ^ (att - 1), ReconnectMax)

\* if attempt >= reconnect_max_attempts: attempt = 0
AfterBackoff(att) == IF att >= ReconnectMaxAttempts THEN 0 ELSE att

\* mutant of AfterSleep: the loop gives up once the attempts are used up
AfterSleepGivesUp(att) == IF att >= ReconnectMaxAttempts THEN "exited" ELSE "loop"

\* where run() goes after the sleep: back to the loop condition
AfterSleep(att) == "loop"

\* mutant of NextHandler: a handler that raised ends the loop over the handlers
NextHandlerStopsOnRaise(i, n, raised) == IF raised \/ i >= n THEN 0 ELSE i + 1

\* the for loop of _dispatch: the exception of handler i is caught and the loop
\* goes on to handler i + 1; 0 once the n handlers were invoked
NextHandler(i, n, raised) == IF i >= n THEN 0 ELSE i + 1

\* mutant of ListenDuringDispatch: _dispatch is spawned as a task of its own and
\* _listen goes straight back to recv()
ListenDuringDispatchSpawned == "receiving"

\* where _listen is while the handlers of a frame run: inside
\* `await self._dispatch(raw)`, not at recv()
ListenDuringDispatch == "dispatching"

\* mutant of SubscriptionPayload: the ticker filter is left out
SubscriptionPayloadBare(h) ==
  [action |-> "subscribe", channel |-> ChannelOf(h), has_tickers |-> FALSE,
   tickers |-> <<>>]

\* handler.subscription_payload(): action and channel, and for a handler with a
\* ticker filter the sorted ticker list (has_tickers: the key is in the dict)
SubscriptionPayload(h) ==
  [action |-> "subscribe", channel |-> ChannelOf(h), has_tickers |-> HasFilter(h),
   tickers |-> IF HasFilter(h) THEN TargetTickers ELSE <<>>]

\* except Exception in run(): count the attempt, compute the delay, sleep
Fail(reason) ==
  /\ failures < MaxFailures
  /\ attempt' = attempt + 1
  /\ wait_time' = BackoffDelay(attempt + 1)
  /\ cpc' = "backoff"
  /\ failReason' = reason
  /\ failures' = failures + 1
  /\ consec' = consec + 1

\* while not self._stop_event.is_set(): ... await self._consume()
LoopHead ==
  /\ cpc = "loop"
  /\ cpc' = IF stop_event THEN "exited" ELSE "connecting"
  /\ UNCHANGED <<stop_event, attempt, wait_time, handlers_by_channel, sent, lastFrame,
                 hidx, calls, streamed, failReason, failures, consec, frames, connects>>
  /\ UNCHANGED notConsumer

\* connect(...) succeeds
ConnectOk ==
  /\ cpc = "connecting"
  /\ connects < MaxConnects
  /\ cpc' = "subscribing"
  /\ sent' = <<>>
  /\ streamed' = FALSE
  /\ connects' = connects + 1
  /\ UNCHANGED <<stop_event, attempt, wait_time, handlers_by_channel, lastFrame, hidx,
                 calls, failReason, failures, consec, frames>>
  /\ UNCHANGED notConsumer

\* connect(...) raises
ConnectFail ==
  /\ cpc = "connecting"
  /\ Fail("connect")
  /\ UNCHANGED <<stop_event, handlers_by_channel, sent, lastFrame, hidx, calls, streamed,
                 frames, connects>>
  /\ UNCHANGED notConsumer

\* _subscribe_all: one send per handler of self._handlers, then _listen
SubscribeSend ==
  /\ cpc = "subscribing"
  /\ Len(sent) < Len(Handlers)
  /\ LET h == Handlers[Len(sent) + 1] IN
       sent' = Append(sent, SubscriptionPayload(h))
  /\ cpc' = IF Len(sent) + 1 = Len(Handlers) THEN "listening" ELSE "subscribing"
  /\ UNCHANGED <<stop_event, attempt, wait_time, handlers_by_channel, lastFrame, hidx,
                 calls, streamed, failReason, failures, consec, frames, connects>>
  /\ UNCHANGED notConsumer

\* websocket.send raises
SubscribeFail ==
  /\ cpc = "subscribing"
  /\ Fail("send")
  /\ UNCHANGED <<stop_event, handlers_by_channel, sent, lastFrame, hidx, calls, streamed,
                 frames, connects>>
  /\ UNCHANGED notConsumer

\* _listen: while not self._stop_event.is_set(); when it is set _listen and
\* _consume return normally and run() sets attempt = 0
ListenCheck ==
  /\ cpc = "listening"
  /\ IF stop_event
     THEN /\ cpc' = "loop"
          /\ attempt' = 0
          /\ consec' = 0
     ELSE /\ cpc' = "receiving"
          /\ UNCHANGED <<attempt, consec>>
  /\ UNCHANGED <<stop_event, wait_time, handlers_by_channel, sent, lastFrame, hidx, calls,
                 streamed, failReason, failures, frames, connects>>
  /\ UNCHANGED notConsumer

\* recv() delivers a frame and _dispatch decodes it
Recv(f) ==
  /\ cpc = "receiving"
  /\ frames < MaxFrames
  /\ LET d == Decode(f, handlers_by_channel) IN
       /\ d = "raise" => failures < MaxFailures
       /\ lastFrame' = f
       /\ calls' = <<>>
       /\ streamed' = TRUE
       /\ frames' = frames + 1
       /\ CASE d = "drop" ->
                 /\ cpc' = "listening"
                 /\ hidx' = 0
                 /\ UNCHANGED <<attempt, wait_time, failReason, failures, consec>>
            [] d = "raise" ->
                 /\ Fail("dispatch")
                 /\ hidx' = 0
            [] d = "handle" ->
                 /\ cpc' = ListenDuringDispatch
                 /\ hidx' = 1
                 /\ UNCHANGED <<attempt, wait_time, failReason, failures, consec>>
  /\ handlers_by_channel' =
       IF ReachesLookup(f)
       THEN RegistryAfterLookup(handlers_by_channel, ExtractChannel(f))
       ELSE handlers_by_channel
  /\ UNCHANGED <<stop_event, sent, connects>>
  /\ UNCHANGED notConsumer

\* await handler.handle(data) returns or raises an Exception, which is caught
Handle(raised) ==
  /\ cpc = "dispatching"
  /\ LET hs == Lookup(handlers_by_channel, ExtractChannel(lastFrame))
         nxt == NextHandler(hidx, Len(hs), raised)
     IN /\ calls' = Append(calls, [h |-> hs[hidx], raised |-> raised,
                                  data |-> ExtractData(lastFrame)])
        /\ hidx' = nxt
        /\ cpc' = IF nxt = 0 THEN "listening" ELSE "dispatching"
  /\ UNCHANGED <<stop_event, attempt, wait_time, handlers_by_channel, sent, lastFrame,
                 streamed, failReason, failures, consec, frames, connects>>
  /\ UNCHANGED notConsumer

\* wait_for times out: asyncio.TimeoutError, re-raised as a closed connection
RecvTimeout ==
  /\ cpc = "receiving"
  /\ Fail("timeout")
  /\ UNCHANGED <<stop_event, handlers_by_channel, sent, lastFrame, hidx, calls, streamed,
                 frames, connects>>
  /\ UNCHANGED notConsumer

\* recv() raises ConnectionClosed
RecvClosed ==
  /\ cpc = "receiving"
  /\ Fail("closed")
  /\ UNCHANGED <<stop_event, handlers_by_channel, sent, lastFrame, hidx, calls, streamed,
                 frames, connects>>
  /\ UNCHANGED notConsumer

\* asyncio.sleep(wait_time) is over; the attempt counter is reset at the maximum.
\* The connection and the locals of _listen and _dispatch are gone by now.
BackoffDone ==
  /\ cpc = "backoff"
  /\ attempt' = AfterBackoff(attempt)
  /\ cpc' = AfterSleep(attempt)
  /\ sent' = <<>>
  /\ lastFrame' = NoFrame
  /\ hidx' = 0
  /\ calls' = <<>>
  /\ streamed' = FALSE
  /\ UNCHANGED <<stop_event, wait_time, handlers_by_channel, failReason, failures, consec,
                 frames, connects>>
  /\ UNCHANGED notConsumer

\* stop(): self._stop_event.set()
Stop ==
  /\ ~stop_event
  /\ cpc \notin {"exited", "cancelled"}
  /\ stop_event' = TRUE
  /\ UNCHANGED <<cpc, attempt, wait_time, handlers_by_channel, sent, lastFrame, hidx,
                 calls, streamed, failReason, failures, consec, frames, connects>>
  /\ UNCHANGED notConsumer

\* the task running run() is cancelled at one of its suspension points
CancelTask ==
  /\ cpc \in {"connecting", "subscribing", "receiving", "dispatching", "backoff"}
  /\ cpc' = "cancelled"
  /\ UNCHANGED <<stop_event, attempt, wait_time, handlers_by_channel, sent, lastFrame,
                 hidx, calls, streamed, failReason, failures, consec, frames, connects>>
  /\ UNCHANGED notConsumer

NextConsumer ==
  \/ LoopHead
  \/ ConnectOk
  \/ ConnectFail
  \/ SubscribeSend
  \/ SubscribeFail
  \/ ListenCheck
  \/ \E f \in Frames : Recv(f)
  \/ \E raised \in BOOLEAN : Handle(raised)
  \/ RecvTimeout
  \/ RecvClosed
  \/ BackoffDone
  \/ Stop
  \/ CancelTask

(***************************************************************************)
(* OptionTradeHandler and the shutdown path of IngestionService.stop()     *)
(*   (src/archive/phase1/ingestion_phase1/handlers/option_trades.py,       *)
(*    src/archive/phase1/ingestion_phase1/service.py)                      *)
(* The lock is never held across an await, so each `async with` block runs *)
(* without interleaving; handle() runs from its call to the first await of *)
(* the repository in one step. Caller 0 is the caller of shutdown().       *)
(***************************************************************************)

Callers == 1..NumCallers
ShutdownCaller == 0

\* messages handed to handle(): a trade of a target ticker, a trade of another
\* ticker, a payload that OptionTradeMessage.from_raw rejects
Messages == {"target", "other", "invalid"}

\* __init__: empty buffer, _last_flush = time.monotonic()
InitTrades ==
  /\ clock = 0
  /\ buffer = <<>>
  /\ last_flush = 0
  /\ tpc = [t \in {ShutdownCaller} \cup Callers |-> "idle"]
  /\ batch = [t \in {ShutdownCaller} \cup Callers |-> <<>>]
  /\ pidx = [t \in {ShutdownCaller} \cup Callers |-> 0]
  /\ flushOf = [t \in {ShutdownCaller} \cup Callers |-> 0]
  /\ nextTrade = 1
  /\ stopping = FALSE
  /\ accepted = <<>>
  /\ persisted = <<>>
  /\ published = <<>>
  /\ flushDone = {}
  /\ raisedAny = FALSE
  /\ sdBuffer = <<>>
  /\ lastTradeMsg = "none"
  /\ persistEnded = {}

\* mutant of ShouldFlush: the buffer must exceed buffer_size
ShouldFlushStrict(len, elapsed) == len > BufferSize \/ elapsed >= FlushInterval

\* mutant of ShouldFlush: the age of the buffer is not looked at
ShouldFlushSizeOnly(len, elapsed) == len >= BufferSize

\* should_flush = len(self._buffer) >= self._buffer_size
\*                or (time.monotonic() - self._last_flush) >= self._flush_interval
ShouldFlush(len, elapsed) == len >= BufferSize \/ elapsed >= FlushInterval

\* mutant of BufferAfterSwap: the batch is handed over but the buffer is kept
BufferAfterSwapKeeps(buf) == buf

\* _flush: batch = self._buffer; self._buffer = []
BufferAfterSwap(buf) == <<>>

\* mutant of FlushTakes: _flush, like handle(), flushes only a full buffer
FlushTakesWhenFull(buf) == Len(buf) >= BufferSize

\* _flush: `if not self._buffer: return`, else the whole buffer is taken,
\* whatever its length and age
FlushTakes(buf) == buf # <<>>

\* where a caller is once its flush is over or has raised
AfterFlush(t, ok) ==
  IF t = ShutdownCaller THEN (IF ok THEN "done" ELSE "failed") ELSE "idle"

\* _flush called by t with the buffer buf: under the lock the batch is swapped
\* out and _last_flush set; then bulk_insert_option_trades(batch) is called and
\* awaited. Without a batch _flush returns at once.
Flush(t, buf) ==
  IF FlushTakes(buf)
  THEN /\ buffer' = BufferAfterSwap(buf)
       /\ last_flush' = clock
       /\ batch' = [batch EXCEPT ![t] = buf]
       /\ persisted' = Append(persisted, [by |-> t, batch |-> buf])
       /\ flushOf' = [flushOf EXCEPT ![t] = Len(persisted) + 1]
       /\ tpc' = [tpc EXCEPT ![t] = "persisting"]
  ELSE /\ buffer' = buf
       /\ tpc' = [tpc EXCEPT ![t] = AfterFlush(t, TRUE)]
       /\ UNCHANGED <<last_flush, batch, persisted, flushOf>>

\* time passes
TradeTick ==
  /\ clock < MaxClock
  /\ clock' = clock + 1
  /\ UNCHANGED <<buffer, last_flush, tpc, batch, pidx, flushOf, nextTrade, stopping,
                 accepted, persisted, published, flushDone, raisedAny, sdBuffer>>
  /\ UNCHANGED lastTradeMsg
  /\ UNCHANGED persistEnded
  /\ UNCHANGED notTrades

\* handle(message) called by t: parse, filter by ticker, append under the lock,
\* and flush when should_flush
HandleTrade(t, m) ==
  /\ tpc[t] = "idle"
  /\ ~stopping
  /\ nextTrade <= MaxTrades
  /\ nextTrade' = nextTrade + 1
  /\ IF m = "target"
     THEN LET buf == Append(buffer, nextTrade) IN
            /\ accepted' = Append(accepted, nextTrade)
            /\ IF ShouldFlush(Len(buf), clock - last_flush)
               THEN Flush(t, buf)
               ELSE /\ buffer' = buf
                    /\ UNCHANGED <<last_flush, tpc, batch, persisted, flushOf>>
     ELSE UNCHANGED <<buffer, last_flush, tpc, batch, persisted, flushOf, accepted>>
  /\ UNCHANGED <<clock, pidx, stopping, published, flushDone, raisedAny, sdBuffer>>
  /\ lastTradeMsg' = m
  /\ UNCHANGED persistEnded
  /\ UNCHANGED notTrades

\* bulk_insert_option_trades returns: the first publish_option_trade is called
PersistOk(t) ==
  /\ tpc[t] = "persisting"
  /\ tpc' = [tpc EXCEPT ![t] = "publishing"]
  /\ pidx' = [pidx EXCEPT ![t] = 1]
  /\ published' = Append(published, [flush |-> flushOf[t], trade |-> batch[t][1]])
  /\ UNCHANGED <<clock, buffer, last_flush, batch, flushOf, nextTrade, stopping,
                 accepted, persisted, flushDone, raisedAny, sdBuffer>>
  /\ UNCHANGED lastTradeMsg
  /\ persistEnded' = persistEnded \cup {[flush |-> flushOf[t], ok |-> TRUE]}
  /\ UNCHANGED notTrades

\* bulk_insert_option_trades raises: the exception leaves _flush
PersistRaise(t) ==
  /\ tpc[t] = "persisting"
  /\ tpc' = [tpc EXCEPT ![t] = AfterFlush(t, FALSE)]
  /\ raisedAny' = TRUE
  /\ UNCHANGED <<clock, buffer, last_flush, batch, pidx, flushOf, nextTrade, stopping,
                 accepted, persisted, published, flushDone, sdBuffer>>
  /\ UNCHANGED lastTradeMsg
  /\ persistEnded' = persistEnded \cup {[flush |-> flushOf[t], ok |-> FALSE]}
  /\ UNCHANGED notTrades

\* publish_option_trade returns: the next item is published, or _flush is over
PublishOk(t) ==
  /\ tpc[t] = "publishing"
  /\ IF pidx[t] < Len(batch[t])
     THEN /\ pidx' = [pidx EXCEPT ![t] = pidx[t] + 1]
          /\ published' = Append(published, [flush |-> flushOf[t],
                                             trade |-> batch[t][pidx[t] + 1]])
          /\ UNCHANGED <<tpc, flushDone>>
     ELSE /\ tpc' = [tpc EXCEPT ![t] = AfterFlush(t, TRUE)]
          /\ flushDone' = flushDone \cup {flushOf[t]}
          /\ UNCHANGED <<pidx, published>>
  /\ UNCHANGED <<clock, buffer, last_flush, batch, flushOf, nextTrade, stopping,
                 accepted, persisted, raisedAny, sdBuffer>>
  /\ UNCHANGED lastTradeMsg
  /\ UNCHANGED persistEnded
  /\ UNCHANGED notTrades

\* publish_option_trade raises: the exception leaves the for loop and _flush
PublishRaise(t) ==
  /\ tpc[t] = "publishing"
  /\ tpc' = [tpc EXCEPT ![t] = AfterFlush(t, FALSE)]
  /\ raisedAny' = TRUE
  /\ UNCHANGED <<clock, buffer, last_flush, batch, pidx, flushOf, nextTrade, stopping,
                 accepted, persisted, published, flushDone, sdBuffer>>
  /\ UNCHANGED lastTradeMsg
  /\ UNCHANGED persistEnded
  /\ UNCHANGED notTrades

\* IngestionService.stop(): self._runner.cancel(); await self._runner. The
\* handle() calls in flight run in the consumer task and get CancelledError at
\* the await they are suspended in; no message is handled afterwards.
ServiceStop ==
  /\ ~stopping
  /\ tpc[ShutdownCaller] = "idle"
  /\ stopping' = TRUE
  /\ tpc' = [t \in DOMAIN tpc |->
              IF t \in Callers /\ tpc[t] # "idle" THEN "cancelled" ELSE tpc[t]]
  /\ UNCHANGED <<clock, buffer, last_flush, batch, pidx, flushOf, nextTrade, accepted,
                 persisted, published, flushDone, raisedAny, sdBuffer>>
  /\ UNCHANGED lastTradeMsg
  /\ UNCHANGED persistEnded
  /\ UNCHANGED notTrades

\* shutdown(): await self._flush()
Shutdown ==
  /\ tpc[ShutdownCaller] = "idle"
  /\ sdBuffer' = buffer
  /\ Flush(ShutdownCaller, buffer)
  /\ UNCHANGED <<clock, pidx, nextTrade, stopping, accepted, published, flushDone,
                 raisedAny>>
  /\ UNCHANGED lastTradeMsg
  /\ UNCHANGED persistEnded
  /\ UNCHANGED notTrades

NextTrades ==
  \/ TradeTick
  \/ \E t \in Callers, m \in Messages : HandleTrade(t, m)
  \/ \E t \in {ShutdownCaller} \cup Callers : PersistOk(t)
  \/ \E t \in {ShutdownCaller} \cup Callers : PersistRaise(t)
  \/ \E t \in {ShutdownCaller} \cup Callers : PublishOk(t)
  \/ \E t \in {ShutdownCaller} \cup Callers : PublishRaise(t)
  \/ ServiceStop
  \/ Shutdown

(***************************************************************************)
(* PriceBarAggregator (src/src/ingestion/aggregators/price_bars.py)        *)
(* A timestamp is [minute, second] within one hour.                        *)
(***************************************************************************)

\* message.ticker as it arrives, and ticker.upper()
RawTickers == {"spy", "QQQ"}
Upper(t) == IF t = "spy" THEN "SPY" ELSE t
BarTickers == {Upper(t) : t \in RawTickers}

TickMinutes == {0, 1, 59}
TickSeconds == {0, 30}

\* the messages handed to add_tick
Ticks ==
  [ticker : RawTickers, minute : TickMinutes, second : TickSeconds,
   last_price : 1..MaxPrice]

NoBar == [ticker |-> "none"]
NoTick == [ticker |-> "none"]
NoResult == [raised |-> FALSE, completed |-> NoBar, current |-> NoBar]

\* __init__: self._state = {}
InitBars ==
  /\ state = [t \in BarTickers |-> NoBar]
  /\ nticks = 0
  /\ lastTick = NoTick
  /\ lastResult = NoResult
  /\ prevState = [t \in BarTickers |-> NoBar]
  /\ returned = [k \in BarTickers \X TickMinutes |-> 0]
  /\ folded = [t \in BarTickers |-> 0]

\* event_timestamp.replace(second=0, microsecond=0)
TruncateToMinute(ts) == [minute |-> ts.minute, second |-> 0]

\* datetime.replace(minute=m) raises ValueError unless 0 <= m <= 59
ReplaceMinuteRaises(m) == m < 0 \/ m > 59

\* rounded_start.replace(minute=rounded_start.minute + 1)
RoundedEnd(rs) == [minute |-> rs.minute + 1, second |-> rs.second]

Max(a, b) == IF a >= b THEN a ELSE b

\* if current is None or current.start != rounded_start
OpensNewBar(current, rounded_start) ==
  current.ticker = "none" \/ current.start # rounded_start

\* PriceBar(ticker, start, end, open = high = low = close = last_price)
NewBar(ticker, rs, price) ==
  [ticker |-> ticker, start |-> rs, end |-> RoundedEnd(rs), open |-> price,
   high |-> price, low |-> price, close |-> price]

\* mutant of Folded: the high of the bar is not raised
FoldedKeepsHigh(current, price) ==
  [current EXCEPT !.low = Min(current.low, price), !.close = price]

\* current.high = max(...); current.low = min(...); current.close = last_price
Folded(current, price) ==
  [current EXCEPT !.high = Max(current.high, price),
                  !.low = Min(current.low, price),
                  !.close = price]

\* add_tick(message): what the call does to the aggregator
AddTick(tk) ==
  /\ nticks < MaxTicks
  /\ nticks' = nticks + 1
  /\ lastTick' = tk
  /\ prevState' = state
  /\ LET rounded_start == TruncateToMinute([minute |-> tk.minute, second |-> tk.second])
         ticker == Upper(tk.ticker)
         current == state[ticker]
     IN IF ReplaceMinuteRaises(rounded_start.minute + 1)
        THEN /\ lastResult' = [raised |-> TRUE, completed |-> NoBar, current |-> NoBar]
             /\ UNCHANGED <<state, returned, folded>>
        ELSE IF OpensNewBar(current, rounded_start)
        THEN LET bar == NewBar(ticker, rounded_start, tk.last_price) IN
               /\ state' = [state EXCEPT ![ticker] = bar]
               /\ folded' = [folded EXCEPT ![ticker] = tk.last_price]
               /\ lastResult' = [raised |-> FALSE, completed |-> current, current |-> bar]
               /\ returned' =
                    IF current.ticker = "none" THEN returned
                    ELSE [returned EXCEPT ![<<current.ticker, current.start.minute>>] = @ + 1]
        ELSE LET bar == Folded(current, tk.last_price) IN
               /\ state' = [state EXCEPT ![ticker] = bar]
               /\ folded' = [folded EXCEPT ![ticker] = tk.last_price]
               /\ lastResult' = [raised |-> FALSE, completed |-> NoBar, current |-> bar]
               /\ UNCHANGED returned

\* add_tick called on the aggregator directly
CallAddTick(tk) ==
  /\ AddTick(tk)
  /\ UNCHANGED notBars

NextBars == \E tk \in Ticks : CallAddTick(tk)

(***************************************************************************)
(* PriceHandler (src/src/ingestion/handlers/price.py), constructed with    *)
(* tickers = ["spy"] over the aggregator above. The consumer awaits one    *)
(* handle() at a time, so a handle() call is one step.                     *)
(***************************************************************************)

\* self._tickers = {ticker.upper() for ticker in tickers}
PriceTickers == {Upper("spy")}

\* the messages handed to handle(): with a ticker or without the key, with
\* fields PriceTickMessage.from_raw accepts or rejects
PriceMessages ==
  [ticker : RawTickers \cup {"absent"}, valid : BOOLEAN, minute : TickMinutes,
   second : {30}, last_price : 1..MaxPrice]

NoPriceMessage == [ticker |-> "none"]

\* which collaborator raises during the call, if any
PriceFailures == {"none", "upsert_price_tick", "publish_price_tick", "publish_price_bar"}

InitPrice ==
  /\ price_handled = 0
  /\ price_msg = NoPriceMessage
  /\ price_calls = <<>>
  /\ price_outcome = "none"

\* if "ticker" not in message: with one configured ticker, that ticker
InferredTicker(m) ==
  IF m.ticker = "absent" THEN CHOOSE t \in PriceTickers : TRUE ELSE m.ticker

\* mutant of PassesTickerFilter: no filter
PassesTickerFilterAny(ticker) == TRUE

\* parsed.ticker.upper() in self._tickers
PassesTickerFilter(ticker) == Upper(ticker) \in PriceTickers

\* a call of a collaborator with what it is given: the tick, the completed bar
\* or the current bar
PriceCall(name, arg) == [call |-> name, arg |-> arg]

\* mutant of BarPublishes: the current bar is published first
BarPublishesCurrentFirst(result, f) ==
  LET all == (IF result.current.ticker # "none"
                THEN <<PriceCall("publish_price_bar", "current")>> ELSE <<>>)
             \o (IF result.completed.ticker # "none"
                   THEN <<PriceCall("publish_price_bar", "completed")>> ELSE <<>>)
  IN IF f = "publish_price_bar" /\ all # <<>> THEN <<all[1]>> ELSE all

\* the publish_price_bar calls after add_tick: completed if not None, current if
\* not None; with a failing publisher the first of them raises
BarPublishes(result, f) ==
  LET all == (IF result.completed.ticker # "none"
                THEN <<PriceCall("publish_price_bar", "completed")>> ELSE <<>>)
             \o (IF result.current.ticker # "none"
                   THEN <<PriceCall("publish_price_bar", "current")>> ELSE <<>>)
  IN IF f = "publish_price_bar" /\ all # <<>> THEN <<all[1]>> ELSE all

\* handle(message)
PriceHandle(m, f) ==
  /\ price_handled < MaxMessages
  /\ price_handled' = price_handled + 1
  /\ price_msg' = m
  /\ LET ticker == InferredTicker(m)
         tk == [ticker |-> ticker, minute |-> m.minute, second |-> m.second,
                last_price |-> m.last_price]
     IN IF ~m.valid
        THEN /\ price_calls' = <<>>
             /\ price_outcome' = "raised"
             /\ UNCHANGED barVars
        ELSE IF ~PassesTickerFilter(ticker)
        THEN /\ price_calls' = <<>>
             /\ price_outcome' = "returned"
             /\ UNCHANGED barVars
        ELSE IF f = "upsert_price_tick"
        THEN /\ price_calls' = <<PriceCall("upsert_price_tick", "tick")>>
             /\ price_outcome' = "raised"
             /\ UNCHANGED barVars
        ELSE IF f = "publish_price_tick"
        THEN /\ price_calls' = <<PriceCall("upsert_price_tick", "tick"),
                               PriceCall("publish_price_tick", "tick")>>
             /\ price_outcome' = "raised"
             /\ UNCHANGED barVars
        ELSE /\ AddTick(tk)
             /\ price_calls' =
                  <<PriceCall("upsert_price_tick", "tick"),
                    PriceCall("publish_price_tick", "tick"),
                    PriceCall("add_tick", "tick")>>
                    \o (IF lastResult'.raised THEN <<>> ELSE BarPublishes(lastResult', f))
             /\ price_outcome' =
                  IF lastResult'.raised \/ f = "publish_price_bar"
                    THEN "raised" ELSE "returned"
  /\ UNCHANGED notPrice

NextPrice == \E m \in PriceMessages, f \in PriceFailures : PriceHandle(m, f)

(***************************************************************************)
(* FlowAlertHandler (src/archive/phase1/ingestion_phase1/handlers/         *)
(* flow_alerts.py), the pattern of the handlers without a buffer           *)
(***************************************************************************)

\* which collaborator raises during the call, if any
AlertFailures == {"none", "insert_flow_alert", "publish_flow_alert"}

InitAlert ==
  /\ alert_calls = <<>>
  /\ alert_raised = "none"

\* mutant of AlertCalls: the alert is published before it is inserted
AlertCallsPublishFirst(f) ==
  IF f = "publish_flow_alert" THEN <<"publish_flow_alert">>
  ELSE IF f = "insert_flow_alert" THEN <<"publish_flow_alert", "insert_flow_alert">>
  ELSE <<"publish_flow_alert", "insert_flow_alert">>

\* await insert_flow_alert(parsed); await publish_flow_alert(parsed): an
\* exception of the first leaves handle before the second
AlertCalls(f) ==
  IF f = "insert_flow_alert" THEN <<"insert_flow_alert">>
  ELSE <<"insert_flow_alert", "publish_flow_alert">>

\* handle(message): a payload from_raw rejects is logged and dropped
HandleFlowAlert(valid, f) ==
  /\ IF ~valid
     THEN /\ alert_calls' = <<>>
          /\ alert_raised' = "none"
     ELSE /\ alert_calls' = AlertCalls(f)
          /\ alert_raised' = f
  /\ UNCHANGED notAlert

NextAlert == \E valid \in BOOLEAN, f \in AlertFailures : HandleFlowAlert(valid, f)

(***************************************************************************)
(* RestScheduler (src/src/ingestion/rest/scheduler.py) with its limiter    *)
(*   (src/src/ingestion/rate_limit.py), of which it is the only caller.    *)
(* Time is kept relative: how long ago each job last ran, how long ago the *)
(* tick read `now`, how long ago the limiter refilled.                     *)
(***************************************************************************)

\* rest_job_poll_interval
PollInterval == 5
\* _run_request: backoff = 10; min(backoff * 2, 120); if attempt >= 3
BackoffBase == 10
BackoffCap == 120
MaxAttempts429 == 3
\* RestRequestSpec.tokens of every request of the catalog
RequestTokens == 1

\* self._jobs, each job's cadence_seconds and the number of requests its
\* request_builder yields
Jobs == <<"fast", "slow">>
JobSet == {Jobs[i] : i \in 1..Len(Jobs)}
Cadence(j) == IF j = "fast" THEN CadenceFast ELSE CadenceSlow
Requests(j) == IF j = "fast" THEN RequestsFast ELSE 1
MaxCadence == Max(CadenceFast, CadenceSlow)

\* time after which an untouched limiter is full again
LimiterFillTime == (Capacity + RefillRate - 1) \div RefillRate

\* what client.get gives: a 2xx response with a JSON body, a 2xx response whose
\* body json() rejects, a 429 with or without a retry hint, another 4xx, a 5xx,
\* or an exception of the HTTP client (timeout, connection error)
RetryHints == {7}
NoResponse == [kind |-> "none", has_hint |-> FALSE, hint |-> 0]
Responses ==
  {[kind |-> k, has_hint |-> FALSE, hint |-> 0] :
     k \in {"ok", "badbody", "429", "4xx", "5xx", "timeout"}}
  \cup {[kind |-> "429", has_hint |-> TRUE, hint |-> h] : h \in RetryHints}

\* __init__: _last_run = 0.0 for every job, so every job is due at the first
\* tick; the limiter is full
InitSched ==
  /\ spc = "loop"
  /\ sched_stop = FALSE
  /\ jidx = 0
  /\ ridx = 0
  /\ req_attempt = 0
  /\ backoff = BackoffBase
  /\ gap = [j \in JobSet |-> Cadence(j)]
  /\ since = [j \in JobSet |-> Cadence(j)]
  /\ tick_age = 0
  /\ limiter_tokens = Capacity
  /\ limiter_age = 0
  /\ phase = 0
  /\ executed = {}
  /\ sleeps = <<>>
  /\ procCalls = 0
  /\ lastResponse = NoResponse
  /\ reqOutcome = "none"
  /\ acq_done = 0
  /\ http_calls = 0

\* d time units pass
Advance(d) ==
  /\ since' = [j \in JobSet |-> Min(since[j] + d, Cadence(j))]
  /\ tick_age' = Min(tick_age + d, MaxCadence)
  /\ limiter_age' = Min(limiter_age + d, LimiterFillTime)
  /\ phase' = (phase + d) % PollInterval

\* mutant of ShouldRun: the job must be overdue
ShouldRunStrict(elapsed, cadence) == elapsed > cadence

\* _should_run: (now - last) >= job.cadence_seconds
ShouldRun(elapsed, cadence) == elapsed >= cadence

\* mutant of NextBackoff: the delay is not doubled
NextBackoffFlat(b) == Min(b, BackoffCap)

\* backoff = min(backoff * 2, 120)
NextBackoff(b) == Min(b * 2, BackoffCap)

\* if attempt >= 3: return
GivesUp(att) == att >= MaxAttempts429

\* mutant of AfterRequestFailure: an exception of a request ends the job
AfterRequestFailureEndsJob(i, n) == n + 1

\* except Exception in the for loop of _execute_job: the loop goes on with the
\* request after request i of n
AfterRequestFailure(i, n) == i + 1

\* mutant of InvokesProcessor: every response that is not a 429 is processed
InvokesProcessorAlways(kind) == kind # "429"

\* the processor is reached: raise_for_status and response.json() did not raise
InvokesProcessor(kind) == kind = "ok"

\* mutant of RetryEntry: the retry after a 429 calls client.get at once
RetryEntrySkipsAcquire == "get"

\* continue: the next pass of the while loop starts with attempt += 1 and acquire
RetryEntry == "attempt"

\* mutant of LastRunSet: the last run is the moment the job ended
LastRunSetAtEnd(j) == [since EXCEPT ![j] = 0]

\* self._last_run[job.name] = now: the job last ran tick_age ago
LastRunSet(j) == [since EXCEPT ![j] = Min(tick_age, Cadence(j))]

\* while not self._stop_event.is_set(): now = time.monotonic()
TickStart ==
  /\ spc = "loop"
  /\ IF sched_stop
     THEN /\ spc' = "exited"
          /\ UNCHANGED <<gap, tick_age, jidx, executed>>
     ELSE /\ spc' = "jobs"
          /\ gap' = since
          /\ tick_age' = 0
          /\ jidx' = 1
          /\ executed' = {}
  /\ UNCHANGED <<sched_stop, ridx, req_attempt, backoff, since, limiter_tokens,
                 limiter_age, phase, sleeps, procCalls, lastResponse, reqOutcome>>
  /\ UNCHANGED <<acq_done, http_calls>>
  /\ UNCHANGED notSched

\* for job in self._jobs: if self._should_run(job, now): await _execute_job(job);
\* after the last job: await asyncio.sleep(poll_interval)
JobStep ==
  /\ spc = "jobs"
  /\ IF jidx > Len(Jobs)
     THEN /\ spc' = "polling"
          /\ UNCHANGED <<jidx, executed>>
     ELSE IF ShouldRun(gap[Jobs[jidx]], Cadence(Jobs[jidx]))
     THEN /\ spc' = "building"
          /\ executed' = executed \cup {Jobs[jidx]}
          /\ UNCHANGED jidx
     ELSE /\ jidx' = jidx + 1
          /\ UNCHANGED <<spc, executed>>
  /\ UNCHANGED <<sched_stop, ridx, req_attempt, backoff, gap, since, tick_age,
                 limiter_tokens, limiter_age, phase, sleeps, procCalls, lastResponse,
                 reqOutcome>>
  /\ UNCHANGED <<acq_done, http_calls>>
  /\ UNCHANGED notSched

\* requests = list(job.request_builder(self._settings)) succeeds
BuildOk ==
  /\ spc = "building"
  /\ ridx' = 1
  /\ spc' = "requests"
  /\ UNCHANGED <<sched_stop, jidx, req_attempt, backoff, gap, since, tick_age,
                 limiter_tokens, limiter_age, phase, executed, sleeps, procCalls,
                 lastResponse, reqOutcome>>
  /\ UNCHANGED <<acq_done, http_calls>>
  /\ UNCHANGED notSched

\* the request builder raises: logged, _execute_job returns, _last_run is set
BuildFail ==
  /\ spc = "building"
  /\ since' = LastRunSet(Jobs[jidx])
  /\ jidx' = jidx + 1
  /\ spc' = "jobs"
  /\ UNCHANGED <<sched_stop, ridx, req_attempt, backoff, gap, tick_age, limiter_tokens,
                 limiter_age, phase, executed, sleeps, procCalls, lastResponse,
                 reqOutcome>>
  /\ UNCHANGED <<acq_done, http_calls>>
  /\ UNCHANGED notSched

\* for request in requests: the next _run_request starts (attempt = 0, backoff =
\* 10), or the loop is over, _execute_job returns and _last_run is set
RequestStep ==
  /\ spc = "requests"
  /\ IF ridx > Requests(Jobs[jidx])
     THEN /\ since' = LastRunSet(Jobs[jidx])
          /\ jidx' = jidx + 1
          /\ spc' = "jobs"
          /\ UNCHANGED <<req_attempt, backoff, sleeps, procCalls, lastResponse, reqOutcome,
                         acq_done, http_calls>>
     ELSE /\ req_attempt' = 0
          /\ backoff' = BackoffBase
          /\ sleeps' = <<>>
          /\ procCalls' = 0
          /\ lastResponse' = NoResponse
          /\ reqOutcome' = "running"
          /\ acq_done' = 0
          /\ http_calls' = 0
          /\ spc' = "attempt"
          /\ UNCHANGED <<since, jidx>>
  /\ UNCHANGED <<sched_stop, ridx, gap, tick_age, limiter_tokens, limiter_age, phase,
                 executed>>
  /\ UNCHANGED notSched

\* attempt += 1; await self._limiter.acquire(request.tokens): _refill, then the
\* tokens are taken at once, or a future is queued that only a later _refill
\* could release
AcquireStep ==
  /\ spc = "attempt"
  /\ req_attempt' = req_attempt + 1
  /\ LET refill == limiter_age * RefillRate
         refills == limiter_age > 0 /\ refill > 0
         tok == IF refills THEN RefillTokens(limiter_tokens, refill) ELSE limiter_tokens
     IN /\ limiter_age' = IF refills THEN 0 ELSE limiter_age
        /\ IF FastPath(tok, RequestTokens, <<>>)
           THEN /\ limiter_tokens' = tok - RequestTokens
                /\ acq_done' = acq_done + 1
                /\ spc' = "get"
           ELSE /\ limiter_tokens' = tok
                /\ UNCHANGED acq_done
                /\ spc' = "waiting"
  /\ UNCHANGED <<sched_stop, jidx, ridx, backoff, gap, since, tick_age, phase,
                 executed, sleeps, procCalls, lastResponse, reqOutcome>>
  /\ UNCHANGED http_calls
  /\ UNCHANGED notSched

\* time passes while the scheduler awaits its future in acquire: nobody else
\* calls the limiter, so no _refill runs and the future stays pending
WaitTime ==
  /\ spc = "waiting"
  /\ Advance(1)
  /\ UNCHANGED <<spc, sched_stop, jidx, ridx, req_attempt, backoff, gap,
                 limiter_tokens, executed, sleeps, procCalls, lastResponse, reqOutcome>>
  /\ UNCHANGED <<acq_done, http_calls>>
  /\ UNCHANGED notSched

\* response = await self._client.get(...) after d time units
GetReturns(r, d) ==
  /\ spc = "get"
  /\ Advance(d)
  /\ lastResponse' = r
  /\ IF r.kind = "429"
     THEN /\ spc' = "sleep429"
          /\ UNCHANGED <<ridx, procCalls, reqOutcome>>
     ELSE IF InvokesProcessor(r.kind)
     THEN /\ spc' = "processing"
          /\ procCalls' = procCalls + 1
          /\ UNCHANGED <<ridx, reqOutcome>>
     ELSE /\ spc' = "requests"
          /\ ridx' = AfterRequestFailure(ridx, Requests(Jobs[jidx]))
          /\ reqOutcome' = "failed"
          /\ UNCHANGED procCalls
  /\ UNCHANGED <<sched_stop, jidx, req_attempt, backoff, gap, limiter_tokens, executed,
                 sleeps>>
  /\ http_calls' = http_calls + 1
  /\ UNCHANGED acq_done
  /\ UNCHANGED notSched

\* await asyncio.sleep(backoff) is over; backoff doubles; after the third
\* attempt _run_request returns
SleepDone ==
  /\ spc = "sleep429"
  /\ Advance(backoff)
  /\ sleeps' = Append(sleeps, backoff)
  /\ backoff' = NextBackoff(backoff)
  /\ IF GivesUp(req_attempt)
     THEN /\ spc' = "requests"
          /\ ridx' = ridx + 1
          /\ reqOutcome' = "abandoned"
     ELSE /\ spc' = RetryEntry
          /\ UNCHANGED <<ridx, reqOutcome>>
  /\ UNCHANGED <<sched_stop, jidx, req_attempt, gap, limiter_tokens, executed,
                 procCalls, lastResponse>>
  /\ UNCHANGED <<acq_done, http_calls>>
  /\ UNCHANGED notSched

\* await job.processor(...) returns or raises; an exception is caught and logged
ProcessorReturns(ok) ==
  /\ spc = "processing"
  /\ reqOutcome' = IF ok THEN "processed" ELSE "failed"
  /\ ridx' = IF ok THEN ridx + 1 ELSE AfterRequestFailure(ridx, Requests(Jobs[jidx]))
  /\ spc' = "requests"
  /\ UNCHANGED <<sched_stop, jidx, req_attempt, backoff, gap, since, tick_age,
                 limiter_tokens, limiter_age, phase, executed, sleeps, procCalls,
                 lastResponse>>
  /\ UNCHANGED <<acq_done, http_calls>>
  /\ UNCHANGED notSched

\* await asyncio.sleep(poll_interval) is over
PollDone ==
  /\ spc = "polling"
  /\ Advance(PollInterval)
  /\ spc' = "loop"
  /\ UNCHANGED <<sched_stop, jidx, ridx, req_attempt, backoff, gap, limiter_tokens,
                 executed, sleeps, procCalls, lastResponse, reqOutcome>>
  /\ UNCHANGED <<acq_done, http_calls>>
  /\ UNCHANGED notSched

\* stop(): the stop event is set and the task cancelled at the await it is in
SchedStop ==
  /\ spc \in {"waiting", "get", "sleep429", "processing", "polling"}
  /\ sched_stop' = TRUE
  /\ spc' = "cancelled"
  /\ UNCHANGED <<jidx, ridx, req_attempt, backoff, gap, since, tick_age,
                 limiter_tokens, limiter_age, phase, executed, sleeps, procCalls,
                 lastResponse, reqOutcome>>
  /\ UNCHANGED <<acq_done, http_calls>>
  /\ UNCHANGED notSched

NextSched ==
  \/ TickStart
  \/ JobStep
  \/ BuildOk
  \/ BuildFail
  \/ RequestStep
  \/ AcquireStep
  \/ WaitTime
  \/ \E r \in Responses, d \in {0, MaxLatency} : GetReturns(r, d)
  \/ SleepDone
  \/ \E ok \in BOOLEAN : ProcessorReturns(ok)
  \/ PollDone
  \/ SchedStop

(***************************************************************************)
(* AccountService (src/src/services/account_service.py) with a row store   *)
(* attached. A key is one entry of one of its caches: an account summary   *)
(* tag that is one of the important tags, one that is not, a position.     *)
(***************************************************************************)

AccountKeys == {"summary:NetLiquidation", "summary:AccruedCash", "position"}

\* self._important_summary_tags
ImportantSummaryKeys == {"summary:NetLiquidation"}

NoEntry == [signature |-> 0, timestamp |-> 0, present |-> FALSE]
NoUpdate == [key |-> "none", signature |-> 0, numeric |-> FALSE, at |-> 0]

\* the updates handed to handle_account_summary / handle_portfolio_position:
\* a summary's value may have no numeric_value
AccountUpdates ==
  [key : AccountKeys, signature : 1..MaxSignature, numeric : BOOLEAN]

InitAccount ==
  /\ acct_now = 0
  /\ acct_cache = [k \in AccountKeys |-> NoEntry]
  /\ acct_update = NoUpdate
  /\ acct_persisted = FALSE
  /\ acct_prev = [k \in AccountKeys |-> NoEntry]

\* mutant of ShouldPersist: an unchanged value is never persisted again
ShouldPersistOnChange(last_entry, signature, at, interval) ==
  \/ ~last_entry.present
  \/ signature # last_entry.signature

\* _should_persist(last_entry, signature, now, interval_seconds)
ShouldPersist(last_entry, signature, at, interval) ==
  \/ ~last_entry.present
  \/ signature # last_entry.signature
  \/ at - last_entry.timestamp >= interval

\* handle_account_summary: numeric_value is not None and summary.tag in
\* self._important_summary_tags; the position handlers have no such test
ReachesChangeDetection(u) ==
  u.key = "position" \/ (u.numeric /\ u.key \in ImportantSummaryKeys)

\* the injected clock moves on
AccountTick ==
  /\ acct_now < MaxAccountTime
  /\ acct_now' = acct_now + 1
  /\ UNCHANGED <<acct_cache, acct_update, acct_persisted, acct_prev>>
  /\ UNCHANGED notAccount

\* handle_account_summary / handle_portfolio_position with update u
HandleAccountUpdate(u) ==
  /\ acct_update' = [key |-> u.key, signature |-> u.signature, numeric |-> u.numeric,
                      at |-> acct_now]
  /\ acct_prev' = acct_cache
  /\ IF /\ ReachesChangeDetection(u)
        /\ ShouldPersist(acct_cache[u.key], u.signature, acct_now, PersistInterval)
     THEN /\ acct_persisted' = TRUE
          /\ acct_cache' = [acct_cache EXCEPT ![u.key] =
                              [signature |-> u.signature, timestamp |-> acct_now,
                               present |-> TRUE]]
     ELSE /\ acct_persisted' = FALSE
          /\ UNCHANGED acct_cache
  /\ UNCHANGED acct_now
  /\ UNCHANGED notAccount

NextAccount ==
  \/ AccountTick
  \/ \E u \in AccountUpdates : HandleAccountUpdate(u)

(***************************************************************************)
(* IngestionService.stop (src/archive/phase1/ingestion_phase1/service.py)  *)
(* with the two tasks of the service and its two collaborators             *)
(***************************************************************************)

InitService ==
  /\ svc_step = 0
  /\ svc_raised = FALSE
  /\ sched_task = "alive"
  /\ runner_task = "alive"
  /\ pub_open = TRUE
  /\ repo_open = TRUE
  /\ svc_shut = 0
  /\ svc_log = <<>>

\* mutant of StopOrder: the publisher is closed before the handlers shut down
StopOrderClosesFirst ==
  <<"stop_scheduler", "stop_consumer", "cancel_runner", "close_publisher",
    "shutdown_handlers", "close_repository">>

\* the awaits of stop(), in the order of its lines
StopOrder ==
  <<"stop_scheduler", "stop_consumer", "cancel_runner", "shutdown_handlers",
    "close_publisher", "close_repository">>

\* the step stop() is in
StopStep == IF svc_step \in 1..Len(StopOrder) THEN StopOrder[svc_step] ELSE "none"

\* a call of the repository or the publisher, logged with the state it found
ServiceCall(by, on) ==
  [by |-> by, on |-> on,
   open |-> IF on = "publisher" THEN pub_open ELSE repo_open,
   runner_done |-> runner_task = "done"]

\* a handle() of the consumer task or a processor of the scheduler task calls a
\* collaborator; the scheduler is given the repository only
TaskCall(task, on) ==
  /\ Len(svc_log) < MaxServiceCalls
  /\ IF task = "consumer" THEN runner_task = "alive"
     ELSE sched_task = "alive" /\ on = "repository"
  /\ svc_log' = Append(svc_log, ServiceCall(task, on))
  /\ UNCHANGED <<svc_step, svc_raised, sched_task, runner_task, pub_open, repo_open,
                 svc_shut>>
  /\ UNCHANGED notService

\* stop() is called
BeginStop ==
  /\ svc_step = 0
  /\ svc_step' = 1
  /\ UNCHANGED <<svc_raised, sched_task, runner_task, pub_open, repo_open, svc_shut,
                 svc_log>>
  /\ UNCHANGED notService

\* the shutdown() that stop() awaits flushes: it calls a collaborator
ShutdownCall(on) ==
  /\ StopStep = "shutdown_handlers"
  /\ ~svc_raised
  /\ Len(svc_log) < MaxServiceCalls
  /\ svc_log' = Append(svc_log, ServiceCall("shutdown", on))
  /\ UNCHANGED <<svc_step, svc_raised, sched_task, runner_task, pub_open, repo_open,
                 svc_shut>>
  /\ UNCHANGED notService

\* the await of the step in progress is over: the scheduler task or the runner
\* has ended, one more shutdown() has returned (or raised, which leaves stop()),
\* the publisher or the repository is closed
StepDone(ok) ==
  /\ StopStep # "none"
  /\ ~svc_raised
  /\ sched_task' = IF StopStep = "stop_scheduler" THEN "done" ELSE sched_task
  /\ runner_task' = IF StopStep = "cancel_runner" THEN "done" ELSE runner_task
  /\ pub_open' = IF StopStep = "close_publisher" THEN FALSE ELSE pub_open
  /\ repo_open' = IF StopStep = "close_repository" THEN FALSE ELSE repo_open
  /\ IF StopStep = "shutdown_handlers"
     THEN IF ok
          THEN /\ svc_shut' = svc_shut + 1
               /\ svc_step' = IF svc_shut + 1 = ServiceHandlerCount
                                THEN svc_step + 1 ELSE svc_step
               /\ UNCHANGED svc_raised
          ELSE /\ svc_raised' = TRUE
               /\ UNCHANGED <<svc_shut, svc_step>>
     ELSE /\ svc_step' = svc_step + 1
          /\ UNCHANGED <<svc_shut, svc_raised>>
  /\ UNCHANGED svc_log
  /\ UNCHANGED notService

NextService ==
  \/ \E task \in {"consumer", "scheduler"}, on \in {"repository", "publisher"} :
       TaskCall(task, on)
  \/ BeginStop
  \/ \E on \in {"repository", "publisher"} : ShutdownCall(on)
  \/ \E ok \in BOOLEAN : StepDone(ok)

(***************************************************************************)
(* UnusualWhalesClient.fetch_endpoint (src/src/clients/unusual_whales.py)  *)
(***************************************************************************)

\* await asyncio.sleep(2 ** attempt); the default of Retry-After; asyncio.sleep(5)
TransientBackoffBase == 2
DefaultRetryAfter == 60
ServerErrorBackoff == 5

\* what _make_request and _parse_response give: a response with a body that
\* parses or not, a timeout, a network error, a 429 (Retry-After absent, a
\* number, or not a number), a 5xx, another 4xx
UwResponses ==
  {[kind |-> k, retry_after |-> "absent"] :
     k \in {"ok", "badbody", "timeout", "network", "429", "5xx", "4xx"}}
  \cup {[kind |-> "429", retry_after |-> h] : h \in {"7", "soon"}}

InitClient ==
  /\ uw_retry = FALSE
  /\ uw_used = <<>>
  /\ uw_sleeps = <<>>
  /\ uw_result = "none"
  /\ request_count = 0

\* mutant of MaxAttempts: one attempt more
MaxAttemptsThree(retry_on_error) == IF retry_on_error THEN 3 ELSE 1

\* max_attempts = 2 if retry_on_error else 1
MaxAttempts(retry_on_error) == IF retry_on_error THEN 2 ELSE 1

\* 2 ** attempt
RECURSIVE PowerOfBase(_)
PowerOfBase(n) == IF n = 0 THEN 1 ELSE TransientBackoffBase * PowerOfBase(n - 1)

\* the sleep before the retry that follows response r of attempt `att`:
\* 2 ** attempt, float(Retry-After) or 60, 5
RetrySleep(r, att) ==
  IF r.kind \in {"timeout", "network"} THEN PowerOfBase(att)
  ELSE IF r.kind = "429"
    THEN (IF r.retry_after = "7" THEN 7 ELSE DefaultRetryAfter)
  ELSE ServerErrorBackoff

\* what one pass of the for loop does with what the request got: return with
\* success, let the ValueError of _parse_response out, sleep and continue, fall
\* out of the except clause to the next pass, return with success False
AttemptResult(kind, att, max_attempts) ==
  IF kind = "ok" THEN "success"
  ELSE IF kind = "badbody" THEN "raised"
  ELSE IF kind \in {"timeout", "network", "429", "5xx"}
    THEN (IF att < max_attempts - 1 THEN "retry" ELSE "next")
  ELSE "failure"

\* for attempt in range(max_attempts): ... ; after the loop: return success False
RECURSIVE FetchFrom(_, _, _)
FetchFrom(rs, att, max_attempts) ==
  IF att >= max_attempts
  THEN [used |-> <<>>, sleeps |-> <<>>, result |-> "failure"]
  ELSE LET r == rs[att + 1]
           a == AttemptResult(r.kind, att, max_attempts)
           rest == FetchFrom(rs, att + 1, max_attempts)
       IN IF a \in {"retry", "next"}
          THEN [used |-> <<r>> \o rest.used,
                sleeps |-> (IF a = "retry" THEN <<RetrySleep(r, att)>> ELSE <<>>)
                             \o rest.sleeps,
                result |-> rest.result]
          ELSE [used |-> <<r>>, sleeps |-> <<>>, result |-> a]

\* fetch_endpoint(endpoint, ticker, retry_on_error) with rs what its requests get
FetchEndpoint(retry_on_error, rs) ==
  /\ request_count < MaxRequestCount
  /\ LET run == FetchFrom(rs, 0, MaxAttempts(retry_on_error)) IN
       /\ uw_used' = run.used
       /\ uw_sleeps' = run.sleeps
       /\ uw_result' = run.result
       /\ request_count' =
            IF run.result \in {"success", "raised"}
              THEN request_count + 1 ELSE request_count
  /\ uw_retry' = retry_on_error
  /\ UNCHANGED notClient

NextClient ==
  \E retry_on_error \in BOOLEAN, rs \in [1..MaxFetchResponses -> UwResponses] :
    FetchEndpoint(retry_on_error, rs)

Init ==
  InitBucket /\ InitConsumer /\ InitTrades /\ InitBars /\ InitPrice /\ InitSched
  /\ InitAccount /\ InitAlert /\ InitService /\ InitClient

SpecBucket == Init /\ [][NextBucket]_vars

SpecConsumer == Init /\ [][NextConsumer]_vars

SpecTrades == Init /\ [][NextTrades]_vars

SpecBars == Init /\ [][NextBars]_vars

\* the price handler, the option-trade handler and the flow-alert handler are
\* separate objects that share no state: a behaviour of this specification
\* exercises one of them
NextHandlers ==
  \/ InitTrades /\ InitAlert /\ NextPrice
  \/ InitBars /\ InitPrice /\ InitAlert /\ NextTrades
  \/ InitBars /\ InitPrice /\ InitTrades /\ NextAlert

SpecHandlers == Init /\ [][NextHandlers]_vars

SpecPrice == Init /\ [][NextPrice]_vars

SpecAccount == Init /\ [][NextAccount]_vars

SpecService == Init /\ [][NextService]_vars

SpecClient == Init /\ [][NextClient]_vars

SpecSched == Init /\ [][NextSched]_vars

\* every await of the scheduler returns in finite time and time goes on; nothing
\* obliges anybody to stop the scheduler
SpecSchedLive ==
  /\ Init
  /\ [][NextSched]_vars
  /\ WF_vars(TickStart) /\ WF_vars(JobStep) /\ WF_vars(BuildOk \/ BuildFail)
  /\ WF_vars(RequestStep) /\ WF_vars(AcquireStep) /\ WF_vars(WaitTime)
  /\ WF_vars(\E r \in Responses, d \in {0, MaxLatency} : GetReturns(r, d))
  /\ WF_vars(SleepDone) /\ WF_vars(\E ok \in BOOLEAN : ProcessorReturns(ok))
  /\ WF_vars(PollDone)

(***************************************************************************)
(* TokenBucket: properties                                                 *)
(***************************************************************************)

Before(order, a, b) == IndexOf(order, a) # 0 /\ IndexOf(order, a) < IndexOf(order, b)

QueuedIds == {waiters[i].id : i \in 1..Len(waiters)}

\* a call that took the immediate path never had a future
TookFastPath(b) == status[b] = "done" /\ fut[b] = "none"

DebitedTotal == SumSeq([i \in 1..Len(debitOrder) |-> size[debitOrder[i]]])

\* C1: grants are strictly FIFO. Whenever the tokens of a call b have been
\* debited, every call a that was in the wait queue when b arrived had its own
\* tokens debited earlier (or was cancelled and was never debited), and a call
\* that took the immediate path left nobody of its arrival queue still queued.
C1_FifoGrants ==
  \A b \in SeqToSet(debitOrder) :
    /\ \A a \in ahead[b] : Before(debitOrder, a, b)
                           \/ (a \notin SeqToSet(debitOrder) /\ fut[a] = "cancelled")
    /\ TookFastPath(b) => ahead[b] \cap QueuedIds = {}

\* C1 witness: a smaller request that arrived behind a larger queued one was
\* debited after it
C1_Witness ==
  \E a \in CallIds, b \in CallIds :
    /\ a \in ahead[b]
    /\ size[b] < size[a]
    /\ Before(debitOrder, a, b)

\* C2: an acquire(n) with 0 < n <= capacity returns once enough time has passed,
\* even when nothing else touches the bucket. Finite form: the call at the head of
\* the wait queue is never still pending after the bucket has been left alone for
\* longer than it takes to refill it completely.
C2_AcquireReturns ==
  \A i \in CallIds :
    (/\ waiters # <<>>
     /\ Head(waiters).id = i
     /\ fut[i] = "pending"
     /\ 0 < size[i]
     /\ size[i] <= Capacity)
    => (now - last_refill) * RefillRate < Capacity + RefillRate

NoCancellation == must_cancel = {} /\ \A i \in CallIds : fut[i] # "cancelled"

\* C3: completion order follows arrival order. An acquire(1) b that arrived while
\* an earlier call a with a request at least as large was waiting in the queue has
\* not returned to its caller before a has (stated for runs without cancellation).
C3_CompletionFollowsArrival ==
  NoCancellation =>
    \A b \in SeqToSet(doneOrder) :
      size[b] = 1 =>
        \A a \in ahead[b] : size[a] >= size[b] => Before(doneOrder, a, b)

\* C4: 0 <= tokens <= capacity in every reachable state
C4_TokensInRange == 0 <= tokens /\ tokens <= Capacity

\* C4 witness: the bucket is full again after tokens were debited, a waiter was
\* released and a waiter was cancelled
C4_Witness ==
  /\ tokens = Capacity
  /\ last_refill > 0
  /\ \E i \in CallIds : fut[i] = "result"
  /\ \E i \in CallIds : fut[i] = "cancelled"

\* C5: the tokens debited up to now never exceed capacity + refill_rate * (now -
\* creation time); the bucket was created at time 0
C5_RateBound == DebitedTotal <= Capacity + RefillRate * now

\* C5 witness: after time has passed, fast-path grants and a released waiter have
\* used the whole allowance
C5_Witness ==
  /\ now > 0
  /\ DebitedTotal = Capacity + RefillRate * now
  /\ \E i \in CallIds : fut[i] = "result"
  /\ \E i \in CallIds : TookFastPath(i)

(***************************************************************************)
(* WebsocketConsumer: properties                                           *)
(***************************************************************************)

\* the frames the dispatcher is to drop: not JSON, JSON but no object, or an object
\* that yields no channel identifier or no payload
Malformed(f) ==
  \/ f.kind \in {"notjson", "nonobject"}
  \/ f.kind = "object" /\ (Falsy(ExtractChannel(f)) \/ ExtractData(f) = "None")

\* the frames that reach the handlers of a registered channel
Dispatched(f) == f.kind = "object" /\ Decode(f, handlers_by_channel) = "handle"

HandlersCalled == [i \in 1..Len(calls) |-> calls[i].h]

\* C6: failures never end the run loop. run() has returned only if the stop
\* signal was set; and whenever the backoff sleep ends, run() is back at its loop
\* condition (or was cancelled), with the attempt counter reset to zero when it had
\* reached the configured maximum.
C6_NeverGivesUp ==
  /\ [](cpc = "exited" => stop_event)
  /\ [][(cpc = "backoff" /\ cpc' # "backoff")
          => \/ cpc' = "cancelled"
             \/ /\ cpc' = "loop"
                /\ attempt' = (IF attempt >= ReconnectMaxAttempts THEN 0 ELSE attempt)]_vars
  /\ [][(cpc = "loop" /\ ~stop_event /\ cpc' # "loop") => cpc' = "connecting"]_vars

\* C6 witness: more failures than the maximum attempt count lie behind, nobody
\* asked to stop, and the consumer is connecting again
C6_Witness ==
  /\ failures > ReconnectMaxAttempts
  /\ ~stop_event
  /\ cpc = "connecting"

\* C7: the delay slept after the k-th consecutive failure is
\* min(5 * 2^(k-1), 60) for every k >= 1
C7_BackoffSequence ==
  cpc = "backoff" => wait_time = Min(ReconnectMin * 2 ^ (consec - 1), ReconnectMax)

\* C8: when a connection that was opened, subscribed and streamed frames has ended
\* by a server close or an inactivity timeout, the delay applied is the base delay
\* reconnect_min, whatever failures preceded that connection
C8_ResetAfterStreaming ==
  (/\ cpc = "backoff"
   /\ failReason \in {"closed", "timeout"}
   /\ Len(sent) = Len(Handlers)
   /\ streamed
   /\ Dispatched(lastFrame))
    => wait_time = ReconnectMin

\* C9: a malformed frame is dropped: no handler is invoked for it and no exception
\* of _dispatch tears the connection down
C9_MalformedDropped ==
  Malformed(lastFrame)
    => /\ calls = <<>>
       /\ ~(cpc = "backoff" /\ failReason = "dispatch")

\* C10: the handlers of the frame's channel are invoked once each in registration
\* order, whether or not any of them raises: while the frame is being dispatched
\* the handlers invoked so far are a prefix of the channel's registration list,
\* and once dispatch is over they are the whole list; a handler step, raising or
\* not, leads on to the next handler or back to the read loop (or the task was
\* cancelled), never to the end of the connection.
C10_HandlerIsolation ==
  /\ [](Dispatched(lastFrame) =>
         LET hs == RegisteredOn(Handlers, ExtractChannel(lastFrame)) IN
           IF hidx > 0
           THEN HandlersCalled = SubSeq(hs, 1, hidx - 1)
           ELSE HandlersCalled = hs)
  /\ [][cpc = "dispatching" => cpc' \in {"dispatching", "listening", "cancelled"}]_vars

\* C10 witness: the first of two handlers raised, the second was invoked all the
\* same, and the consumer is reading the next frame
C10_Witness ==
  /\ Dispatched(lastFrame)
  /\ Len(calls) = 2
  /\ calls[1].raised
  /\ ~calls[2].raised
  /\ calls[1].h # calls[2].h
  /\ cpc = "receiving"

\* the registry as the constructor builds it
ConstructedRegistry == [c \in Channels |-> RegisteredOn(Handlers, c)]

\* a well-formed frame (an object with a channel identifier and a payload) whose
\* channel has no registered handler
Unregistered(f) ==
  /\ f.kind = "object"
  /\ ~Malformed(f)
  /\ RegisteredOn(Handlers, ExtractChannel(f)) = <<>>

\* C11: a well-formed frame whose channel has no registered handler is ignored: no
\* handler is invoked, no exception of _dispatch ends the connection, and the
\* lookup creates no registry entry; the registry always equals the one built at
\* construction.
C11_UnknownChannelIgnored ==
  /\ handlers_by_channel = ConstructedRegistry
  /\ Unregistered(lastFrame)
       => /\ calls = <<>>
          /\ hidx = 0
          /\ ~(cpc = "backoff" /\ failReason = "dispatch")

\* C11 witness: a frame of the unregistered channel X carrying a data object was
\* dropped and the consumer is reading the next frame
C11_Witness ==
  /\ Unregistered(lastFrame)
  /\ lastFrame.channel = "X"
  /\ lastFrame.data = "dict"
  /\ calls = <<>>
  /\ cpc = "receiving"

\* the channel identifier as specified: the first of channel, topic, stream that
\* the frame has
FirstPresent(f) ==
  IF f.channel # "absent" THEN f.channel
  ELSE IF f.topic # "absent" THEN f.topic
  ELSE f.stream

\* the payload as specified: the nested data object, else the nested payload
\* object, else all top-level fields but channel, topic and stream
SpecifiedPayload(f) ==
  IF f.data = "dict" THEN "data"
  ELSE IF f.payload = "dict" THEN "payload"
  ELSE "rest"

\* C12: a frame whose channel identifier (first present of channel, topic,
\* stream; no empty identifier) names a registered channel is dispatched to that
\* channel's handlers, whichever field carried the identifier, and every handler
\* receives the payload chosen as data object, else payload object, else the
\* remaining top-level fields.
C12_ChannelAndPayload ==
  (/\ lastFrame.kind = "object"
   /\ lastFrame.channel # ""
   /\ RegisteredOn(Handlers, FirstPresent(lastFrame)) # <<>>)
    => /\ hidx > 0 \/ calls # <<>>
       /\ \A i \in 1..Len(calls) :
            /\ ChannelOf(calls[i].h) = FirstPresent(lastFrame)
            /\ calls[i].data = SpecifiedPayload(lastFrame)

\* C13: frames of a connection are handled one at a time in arrival order: while
\* recv() is awaited no handler invocation is pending, and a frame is received
\* only when every handler invocation of the frame before it is over.
C13_OneFrameAtATime ==
  /\ [](cpc = "receiving" => hidx = 0)
  /\ [][frames' # frames
          => /\ hidx = 0
             /\ Dispatched(lastFrame)
                  => HandlersCalled = RegisteredOn(Handlers, ExtractChannel(lastFrame))]_vars

\* C13 witness: the second frame of one connection is being dispatched, its first
\* handler done and its second pending
C13_Witness ==
  /\ connects = 1
  /\ frames = 2
  /\ Dispatched(lastFrame)
  /\ cpc = "dispatching"
  /\ hidx = 2

\* the subscribe message specified for a handler
SpecifiedSubscribe(h) ==
  IF HasFilter(h)
  THEN [action |-> "subscribe", channel |-> ChannelOf(h), has_tickers |-> TRUE,
        tickers |-> TargetTickers]
  ELSE [action |-> "subscribe", channel |-> ChannelOf(h), has_tickers |-> FALSE,
        tickers |-> <<>>]

\* C14: on every connection, the messages sent so far are the subscribe messages
\* of the registered handlers in registration order, one per handler; while the
\* connection subscribes they are a proper prefix, and frames are read and
\* dispatched only after all of them were sent.
C14_SubscribeBeforeFrames ==
  /\ Len(sent) <= Len(Handlers)
  /\ \A i \in 1..Len(sent) : sent[i] = SpecifiedSubscribe(Handlers[i])
  /\ cpc = "subscribing" => Len(sent) < Len(Handlers)
  /\ (cpc \in {"listening", "receiving", "dispatching"} \/ streamed \/ hidx > 0)
       => Len(sent) = Len(Handlers)

\* C14 witness: after a reconnect all subscriptions were sent again and a frame
\* is being dispatched
C14_Witness ==
  /\ connects = 2
  /\ failures > 0
  /\ Len(sent) = Len(Handlers)
  /\ cpc = "dispatching"

(***************************************************************************)
(* OptionTradeHandler: properties                                          *)
(***************************************************************************)

\* the batches passed to bulk-persist so far, one after the other
RECURSIVE Batches(_)
Batches(ps) == IF ps = <<>> THEN <<>> ELSE Head(ps).batch \o Batches(Tail(ps))

NoDuplicates(s) == \A i \in 1..Len(s), j \in 1..Len(s) : s[i] = s[j] => i = j

\* the trades whose publish call belongs to flush k, in call order
RECURSIVE PublishedOf(_, _)
PublishedOf(ps, k) ==
  IF ps = <<>> THEN <<>>
  ELSE IF Head(ps).flush = k THEN <<Head(ps).trade>> \o PublishedOf(Tail(ps), k)
  ELSE PublishedOf(Tail(ps), k)

IsPrefix(a, b) == Len(a) <= Len(b) /\ a = SubSeq(b, 1, Len(a))

\* C15: the buffer hand-off is atomic. The batches in bulk-persist order followed
\* by the buffer are exactly the accepted trades in append order, none twice: a
\* trade is in at most one batch, a trade appended while an earlier batch is
\* persisted is in a later batch, and a batch keeps the append order. When the
\* flush of shutdown() has taken the buffer, every trade accepted so far is in
\* exactly one batch.
C15_AtomicHandoff ==
  /\ [](/\ Batches(persisted) \o buffer = accepted
        /\ NoDuplicates(Batches(persisted)))
  /\ [][(tpc[ShutdownCaller] = "idle" /\ tpc'[ShutdownCaller] # "idle")
          => /\ Batches(persisted') = accepted'
             /\ buffer' = <<>>]_vars

\* C15 witness: while the batch of one caller is still being persisted, a trade
\* appended after the swap has gone out in a later batch of another caller
C15_Witness ==
  \E t \in Callers :
    /\ tpc[t] = "persisting"
    /\ flushOf[t] < Len(persisted)
    /\ Len(batch[t]) = BufferSize
    /\ persisted[Len(persisted)].batch # <<>>

\* every caller of handle() and the caller of shutdown() is idle, nothing has
\* raised and nothing was cancelled
Quiet ==
  /\ \A t \in {ShutdownCaller} \cup Callers : tpc[t] = "idle"
  /\ ~raisedAny
  /\ ~stopping

\* C16: a handle() call that accepts its trade appends it and then flushes if and
\* only if the buffer length has reached buffer_size or flush_interval has passed
\* since the last flush; if it does not flush, it calls neither the repository
\* nor the publisher. A flush makes one bulk-persist call with the whole batch
\* and one publish call per item of the batch, in batch order. With the interval
\* not elapsed, buffer_size accepted trades give exactly one bulk-persist call
\* and buffer_size publish calls.
C16_FlushThresholds ==
  /\ [][accepted' # accepted =>
          LET buf == Append(buffer, nextTrade)
              due == Len(buf) >= BufferSize \/ clock - last_flush >= FlushInterval
          IN IF due
             THEN /\ Len(persisted') = Len(persisted) + 1
                  /\ persisted'[Len(persisted')].batch = buf
                  /\ buffer' = <<>>
             ELSE /\ persisted' = persisted
                  /\ published' = published
                  /\ buffer' = buf]_vars
  /\ [](/\ \A k \in 1..Len(persisted) :
             /\ IsPrefix(PublishedOf(published, k), persisted[k].batch)
             /\ k \in flushDone => PublishedOf(published, k) = persisted[k].batch
        /\ \A i \in 1..Len(published) : published[i].flush \in 1..Len(persisted))
  /\ []((Quiet /\ Len(accepted) = BufferSize /\ clock < FlushInterval)
          => /\ Len(persisted) = 1
             /\ persisted[1].batch = accepted
             /\ Len(published) = BufferSize)

\* C16 witness: within the interval buffer_size trades were accepted, the second
\* call flushed, and the flush has made its one bulk-persist call and published
\* every item
C16_Witness ==
  /\ Quiet
  /\ Len(accepted) = BufferSize
  /\ clock < FlushInterval
  /\ Len(persisted) = 1
  /\ flushDone = {1}
  /\ Len(published) = BufferSize

\* the indexes in persisted of the bulk-persist calls made by shutdown()
ShutdownFlushes == {k \in 1..Len(persisted) : persisted[k].by = ShutdownCaller}

\* C17: shutdown() flushes once, whatever the thresholds. Called with a non-empty
\* buffer it makes exactly one bulk-persist call, with all the buffered trades,
\* leaves the buffer empty, and (when nothing raises) makes one publish call per
\* trade of that batch; called with an empty buffer it calls neither the
\* repository nor the publisher.
C17_ShutdownFlush ==
  /\ [][(tpc[ShutdownCaller] = "idle" /\ tpc'[ShutdownCaller] # "idle")
          => IF buffer # <<>>
             THEN /\ persisted' = Append(persisted, [by |-> ShutdownCaller,
                                                     batch |-> buffer])
                  /\ buffer' = <<>>
             ELSE /\ persisted' = persisted
                  /\ published' = published
                  /\ tpc'[ShutdownCaller] = "done"]_vars
  /\ [](/\ Cardinality(ShutdownFlushes) <= 1
        /\ tpc[ShutdownCaller] # "idle" =>
             IF sdBuffer = <<>>
             THEN ShutdownFlushes = {}
             ELSE \E k \in ShutdownFlushes :
                    /\ persisted[k].batch = sdBuffer
                    /\ IsPrefix(PublishedOf(published, k), sdBuffer)
                    /\ tpc[ShutdownCaller] = "done" => PublishedOf(published, k) = sdBuffer)

\* C17 witness: shutdown() found fewer trades than buffer_size, before
\* flush_interval had passed, and has persisted and published them
C17_Witness ==
  /\ tpc[ShutdownCaller] = "done"
  /\ sdBuffer # <<>>
  /\ Len(sdBuffer) < BufferSize
  /\ clock < FlushInterval
  /\ \E k \in ShutdownFlushes : PublishedOf(published, k) = sdBuffer

\* the trades of the bulk-persist calls, and of the publish calls, made so far
PersistedTrades == SeqToSet(Batches(persisted))
PublishedTrades == {published[i].trade : i \in 1..Len(published)}

\* C18: an orderly shutdown drops nothing. When IngestionService.stop() has
\* cancelled the consumer task and the shutdown flush is over, and neither the
\* repository nor the publisher has raised, every trade accepted has been passed
\* to bulk-persist and published, those of a batch whose flush was in progress
\* when the task was cancelled included.
C18_StopDropsNothing ==
  (/\ stopping
   /\ tpc[ShutdownCaller] = "done"
   /\ ~raisedAny)
    => \A id \in SeqToSet(accepted) : id \in PersistedTrades /\ id \in PublishedTrades

(***************************************************************************)
(* PriceBarAggregator: properties                                          *)
(***************************************************************************)

\* the last tick's timestamp truncated to the minute, its ticker, its price
TickMinute == [minute |-> lastTick.minute, second |-> 0]
TickTicker == Upper(lastTick.ticker)
TickPrice == lastTick.last_price

\* the reference reducer opens a new bar: no bar, or a bar of another minute
ReferenceOpens ==
  prevState[TickTicker].ticker = "none" \/ prevState[TickTicker].start # TickMinute

\* what add_tick did to the bar of the tick's ticker agrees with the reference
\* reducer applied to the state before the call
AgreesWithReference ==
  LET prev == prevState[TickTicker]
      cur == state[TickTicker]
  IN /\ lastResult.current = cur
     /\ cur.ticker = TickTicker
     /\ IF ReferenceOpens
        THEN /\ lastResult.completed = prev
             /\ cur.start = TickMinute
             /\ cur.open = TickPrice /\ cur.high = TickPrice
             /\ cur.low = TickPrice /\ cur.close = TickPrice
        ELSE /\ lastResult.completed = NoBar
             /\ cur.start = prev.start
             /\ cur.open = prev.open
             /\ cur.high = Max(prev.high, TickPrice)
             /\ cur.low = Min(prev.low, TickPrice)
             /\ cur.close = TickPrice

\* C19: add_tick agrees with the reference reducer on every tick: it returns, the
\* bar of the tick's ticker is opened anew (the previous one returned as
\* completed) when there was none or its start differs from the truncated
\* minute and is folded (high = max, low = min, close = price, open and start
\* kept, completed None) otherwise, and the bars of the other tickers are
\* unchanged.
C19_AgreesWithReducer ==
  lastTick.ticker # "none"
    => /\ ~lastResult.raised
       /\ AgreesWithReference
       /\ \A u \in BarTickers \ {TickTicker} : state[u] = prevState[u]

\* C20: each bar (ticker, start minute) is returned as completed at most once,
\* whatever the order of the timestamps, and only by a tick of its ticker whose
\* truncated minute differs from its start; each ticker has at most one current
\* bar, its own.
C20_CompletedAtMostOnce ==
  /\ \A k \in DOMAIN returned : returned[k] <= 1
  /\ lastResult.completed.ticker # "none"
       => /\ lastResult.completed.ticker = TickTicker
          /\ lastResult.completed.start # TickMinute
  /\ \A t \in BarTickers : state[t].ticker \in {"none", t}

\* low <= open <= high and low <= close <= high
WellOrdered(bar) ==
  /\ bar.low <= bar.open /\ bar.open <= bar.high
  /\ bar.low <= bar.close /\ bar.close <= bar.high
  /\ bar.low <= bar.high

\* C21: every bar the aggregator holds or has just returned (as completed or as
\* current) has low <= open <= high, low <= close <= high and low <= high; the
\* close of a held bar is the price of the last tick folded into it.
C21_BarInvariant ==
  /\ \A t \in BarTickers :
       state[t].ticker # "none" => WellOrdered(state[t]) /\ state[t].close = folded[t]
  /\ lastResult.completed.ticker # "none" => WellOrdered(lastResult.completed)
  /\ lastResult.current.ticker # "none"
       => WellOrdered(lastResult.current) /\ lastResult.current.close = TickPrice

\* C21 witness: a bar that saw a price above and a price below its open has been
\* returned as completed
C21_Witness ==
  /\ lastResult.completed.ticker # "none"
  /\ lastResult.completed.low < lastResult.completed.open
  /\ lastResult.completed.open < lastResult.completed.high
  /\ lastResult.completed.close # lastResult.completed.open

\* one minute after ts, within the hour (the carry into the hour is not modelled)
PlusOneMinute(ts) == [minute |-> (ts.minute + 1) % 60, second |-> ts.second]

\* C22: for every tick timestamp, minute 59 included, add_tick returns a current
\* bar whose start is the timestamp truncated to the minute and whose end is
\* one minute after its start.
C22_EndIsStartPlusMinute ==
  lastTick.ticker # "none"
    => /\ ~lastResult.raised
       /\ lastResult.current.start = TickMinute
       /\ lastResult.current.end = PlusOneMinute(lastResult.current.start)

(***************************************************************************)
(* RestScheduler: properties                                               *)
(***************************************************************************)

\* the scheduler is inside _execute_job of the job at jidx
InJob == spc \in {"building", "requests", "attempt", "waiting", "get", "sleep429",
                  "processing"}

\* the scheduler is inside _run_request of the request at ridx
InRequest == spc \in {"attempt", "waiting", "get", "sleep429", "processing"}

\* the jobs the for loop of this tick has decided on: those it has passed and
\* the one it is executing (or was executing when the task was cancelled)
Decided ==
  {Jobs[i] : i \in {k \in 1..Len(Jobs) :
                      k < jidx \/ (k = jidx /\ (InJob \/ spc = "cancelled"))}}

\* C23: in a tick a job is executed if and only if the tick's time minus the
\* job's recorded last run is at least its cadence: every job the loop has
\* passed was executed exactly when that gap had reached the cadence, so no due
\* job is skipped and none runs early; the recorded last run of a job executed
\* in this tick is the tick's own instant, so the tick instants of consecutive
\* executions are at least a cadence apart.
C23_CadenceRule ==
  /\ executed \subseteq Decided
  /\ \A j \in Decided : j \in executed <=> gap[j] >= Cadence(j)
  /\ \A i \in 1..Len(Jobs) :
       (i < jidx /\ Jobs[i] \in executed)
         => since[Jobs[i]] = Min(tick_age, Cadence(Jobs[i]))

\* C23 witness: a tick one poll interval after both jobs ran is over; the job
\* whose cadence had passed was executed, the other one was not
C23_Witness ==
  /\ spc = "polling"
  /\ executed = {"fast"}
  /\ gap["fast"] >= CadenceFast
  /\ gap["slow"] > 0
  /\ gap["slow"] < CadenceSlow

\* C24: unless the scheduler is stopped, its loop keeps ticking (it reaches the
\* poll sleep again and again) and every job of the catalog is executed again
\* and again, whatever the HTTP outcomes, given that every await returns.
C24_KeepsRunning ==
  \/ <>(spc = "cancelled")
  \/ /\ []<>(spc = "polling")
     /\ \A j \in JobSet : []<>(spc = "building" /\ Jobs[jidx] = j)

\* a step in which the HTTP call, the decoding of the body or the processor of
\* the current request raises
RequestFails == spc \in {"get", "processing"} /\ reqOutcome' = "failed"

\* a step in which the request builder of the current job raises
BuildRaises == spc = "building" /\ spc' = "jobs"

\* C25: a failure of the build, the HTTP call, the decoding or the processor is
\* caught: a failing request only moves the job's loop to the request after it
\* (same job, same tick, the jobs already executed untouched), which is then
\* started; a failing build only moves the tick's loop to the job after it; the
\* loop is left only by stop.
C25_FailureIsolation ==
  [][/\ RequestFails
          => /\ spc' = "requests"
             /\ ridx' = ridx + 1
             /\ jidx' = jidx
             /\ executed' = executed
             /\ gap' = gap
     /\ BuildRaises
          => /\ jidx' = jidx + 1
             /\ executed' = executed
             /\ gap' = gap
     /\ (spc = "requests" /\ reqOutcome = "failed" /\ ridx <= Requests(Jobs[jidx]))
          => spc' = "attempt"
     /\ spc' # "exited"
     /\ spc' = "cancelled" => sched_stop']_vars

\* C25 witness: the first request of the two-request job has failed and the
\* loop stands before its second request
C25_Witness ==
  /\ spc = "requests"
  /\ reqOutcome = "failed"
  /\ Jobs[jidx] = "fast"
  /\ ridx = 2
  /\ ridx <= Requests(Jobs[jidx])

\* the delays the spec gives for a request that keeps receiving 429
SpecifiedSleeps == <<BackoffBase, 2 * BackoffBase, 4 * BackoffBase>>

\* what holds of the current request at any moment
BoundedRetry ==
  /\ req_attempt <= MaxAttempts429
  /\ IsPrefix(sleeps, SpecifiedSleeps)
  /\ backoff <= BackoffCap
  /\ \A i \in 1..Len(sleeps) : sleeps[i] <= BackoffCap
  /\ reqOutcome = "abandoned"
       => /\ req_attempt = MaxAttempts429
          /\ sleeps = SpecifiedSleeps
          /\ procCalls = 0

\* C26: a request that keeps receiving 429 is attempted at most 3 times, the
\* sleeps after its attempts are 10, 20, 40 (doubling, never above 120), and
\* after the third it is abandoned: its processor was not invoked, and the step
\* that abandons it is an ordinary return to the loop over the job's requests,
\* which stands at the request after it.
C26_Persistent429 ==
  [][/\ BoundedRetry'
     /\ (spc = "sleep429" /\ spc' # "cancelled" /\ req_attempt >= MaxAttempts429)
          => /\ reqOutcome' = "abandoned"
             /\ spc' = "requests"
             /\ ridx' = ridx + 1
             /\ jidx' = jidx]_vars

\* C26 witness: the first request of the two-request job was abandoned after
\* three 429 responses and the loop stands before its second request
C26_Witness ==
  /\ reqOutcome = "abandoned"
  /\ sleeps = SpecifiedSleeps
  /\ spc = "requests"
  /\ Jobs[jidx] = "fast"
  /\ ridx = 2

\* the sleep that followed the last response, a 429, is over
SleptAfter429 ==
  /\ lastResponse.kind = "429"
  /\ Len(sleeps) > 0
  /\ Len(sleeps) = req_attempt

\* C27: the sleep after a 429 lasts as long as the retry hint of the response
\* when it carries one, and as long as the fallback delay of that attempt only
\* when it carries none.
C27_SleepsRetryHint ==
  SleptAfter429
    => sleeps[Len(sleeps)] = IF lastResponse.has_hint
                               THEN lastResponse.hint
                               ELSE SpecifiedSleeps[Len(sleeps)]

\* C28: a request whose last response was a 5xx, or whose HTTP call timed out,
\* is reported as failed only after at least one further attempt.
C28_RetriesServerErrors ==
  (reqOutcome = "failed" /\ lastResponse.kind \in {"5xx", "timeout"})
    => req_attempt >= 2

\* a 4xx other than 429 ends the request: it is reported failed after the call
\* that got it (the only call when no 429 came before), and no attempt follows
NotRetried ==
  lastResponse.kind = "4xx"
    => /\ reqOutcome = "failed"
       /\ ~InRequest \/ spc = "cancelled"
       /\ sleeps = <<>> => req_attempt = 1

\* C29 as stated: a 4xx other than 429 is not retried and not processed, and
\* the processor is invoked exactly once for a request if and only if a
\* response that is neither an error status nor a 429 was received.
C29_ProcessorIffSuccess ==
  /\ NotRetried
  /\ procCalls <= 1
  /\ procCalls = 1 <=> lastResponse.kind \in {"ok", "badbody"}

\* C29 amended: a 4xx other than 429 is not retried and not processed, and the
\* processor is invoked exactly once for a request if and only if a response
\* that is neither an error status nor a 429 was received and its body decoded.
C29_ProcessorIffDecoded ==
  /\ NotRetried
  /\ procCalls <= 1
  /\ procCalls = 1 <=> lastResponse.kind = "ok"

\* C29 witness: the only call of a request got a 4xx; the request is failed and
\* the loop stands before the next request
C29_Witness ==
  /\ lastResponse.kind = "4xx"
  /\ req_attempt = 1
  /\ reqOutcome = "failed"
  /\ procCalls = 0
  /\ spc = "requests"

(***************************************************************************)
(* Handlers' ticker filter: properties                                     *)
(***************************************************************************)

\* a step in which the price handler is handed a well-formed message whose
\* upper-cased ticker is outside its filter
PriceDropStep ==
  /\ price_handled' # price_handled
  /\ price_msg'.valid
  /\ Upper(InferredTicker(price_msg')) \notin PriceTickers

\* a step in which the option-trade handler is handed a message whose ticker is
\* outside its filter
TradeDropStep ==
  /\ nextTrade' # nextTrade
  /\ lastTradeMsg' = "other"

\* C30: a message whose upper-cased ticker is outside the handler's filter is
\* dropped: the price handler returns normally having called neither the
\* repository nor the publisher nor the aggregator, whose bars stay as they
\* were; the option-trade handler returns with its buffer, its flush clock and
\* its callers untouched and nothing persisted or published.
C30_OutsideFilterDropped ==
  [][/\ PriceDropStep
          => /\ price_calls' = <<>>
             /\ price_outcome' = "returned"
             /\ barVars' = barVars
     /\ TradeDropStep
          => /\ buffer' = buffer
             /\ last_flush' = last_flush
             /\ tpc' = tpc
             /\ batch' = batch
             /\ accepted' = accepted
             /\ persisted' = persisted
             /\ published' = published
             /\ raisedAny' = raisedAny]_vars

\* C30 witness: the aggregator holds a bar of the handler's ticker and the last
\* message, for another ticker, was dropped
C30_Witness ==
  /\ price_msg.ticker = "QQQ"
  /\ price_msg.valid
  /\ price_outcome = "returned"
  /\ price_calls = <<>>
  /\ state["SPY"].ticker = "SPY"

(***************************************************************************)
(* PriceHandler: properties                                                *)
(***************************************************************************)

\* the calls the spec gives for an accepted tick, given what add_tick returned
SpecifiedPriceCalls(result) ==
  <<PriceCall("upsert_price_tick", "tick"), PriceCall("publish_price_tick", "tick"),
    PriceCall("add_tick", "tick")>>
  \o (IF result.completed.ticker # "none"
        THEN <<PriceCall("publish_price_bar", "completed")>> ELSE <<>>)
  \o (IF result.current.ticker # "none"
        THEN <<PriceCall("publish_price_bar", "current")>> ELSE <<>>)

\* the last handle() call reached add_tick
FedAggregator(cs) ==
  \E i \in 1..Len(cs) : cs[i].call = "add_tick"

FirstChangedOrStale ==
  LET last == acct_prev[acct_update.key] IN
    \/ ~last.present
    \/ acct_update.signature # last.signature
    \/ acct_update.at - last.timestamp >= PersistInterval

\* the cache after the last call: a new entry for the key of a persisted
\* update, nothing else touched
CacheFollowsPersist ==
  /\ \A k \in AccountKeys : k # acct_update.key => acct_cache[k] = acct_prev[k]
  /\ IF acct_persisted
       THEN acct_cache[acct_update.key] =
              [signature |-> acct_update.signature, timestamp |-> acct_update.at,
               present |-> TRUE]
       ELSE acct_cache[acct_update.key] = acct_prev[acct_update.key]

\* C32 as stated: an update is persisted if and only if it is the first for
\* its key, or its signature differs from the last persisted one, or the
\* interval has passed; the cache changes only when a persist happens.
C32_PersistIffChanged ==
  acct_update.key # "none"
    => /\ acct_persisted <=> FirstChangedOrStale
       /\ CacheFollowsPersist

\* C32 amended: the same, for the updates that reach the change detection (any
\* position; a summary with a numeric value of one of the important tags); the
\* other summaries are never persisted.
C32_PersistIffChangedAndEligible ==
  acct_update.key # "none"
    => /\ acct_persisted <=> (ReachesChangeDetection(acct_update) /\ FirstChangedOrStale)
       /\ CacheFollowsPersist

\* C32 witness: an unchanged value was persisted again because the interval had
\* passed since it was last persisted
C32_Witness ==
  /\ acct_persisted
  /\ acct_prev[acct_update.key].present
  /\ acct_prev[acct_update.key].signature = acct_update.signature
  /\ acct_cache[acct_update.key].timestamp = acct_update.at

(***************************************************************************)
(* RestScheduler and its limiter: properties                               *)
(***************************************************************************)

\* client.get calls of the current request issued so far: those that returned
\* and the one in flight
HttpIssued == http_calls + (IF spc = "get" THEN 1 ELSE 0)

\* C33: every HTTP call of the scheduler, a retry after a 429 included, follows
\* an acquire of its own that returned: the calls issued for a request never
\* outnumber its completed acquires, which never outnumber its attempts; a call
\* is in flight only with all earlier calls returned, and while an acquire is
\* pending the attempt it belongs to has issued no call.
C33_AcquireBeforeCall ==
  /\ HttpIssued <= acq_done
  /\ acq_done <= req_attempt
  /\ spc = "get" => (acq_done = req_attempt /\ http_calls = req_attempt - 1)
  /\ spc = "waiting" => (acq_done = req_attempt - 1 /\ HttpIssued = acq_done)

\* C33 witness: the third call of a request is in flight after two 429
\* responses, each call after its own acquire
C33_Witness ==
  /\ spc = "get"
  /\ http_calls = 2
  /\ acq_done = 3
  /\ Len(sleeps) = 2

(***************************************************************************)
(* Persist before publish: properties                                      *)
(***************************************************************************)

\* in a list of calls of a handler without buffer, a publish call comes only
\* after the repository write, which is the first call
WriteFirst(names) ==
  \A i \in 1..Len(names) :
    names[i] \in {"publish_flow_alert", "publish_price_tick", "publish_price_bar"}
      => i > 1 /\ names[1] \in {"insert_flow_alert", "upsert_price_tick"}

\* C34: an event reaches the publisher only after the repository write that
\* covers it returned. In the handlers without buffer the write is the first
\* call and a write that raised is the last one. In the buffered handler every
\* published trade belongs to a flush whose bulk-persist returned, a flush whose
\* bulk-persist raised has published nothing, and the trades of a flush are
\* published in the order of its batch.
C34_PersistBeforePublish ==
  /\ WriteFirst(alert_calls)
  /\ alert_raised = "insert_flow_alert" => alert_calls = <<"insert_flow_alert">>
  /\ WriteFirst([i \in 1..Len(price_calls) |-> price_calls[i].call])
  /\ \A i \in 1..Len(published) :
       [flush |-> published[i].flush, ok |-> TRUE] \in persistEnded
  /\ \A k \in 1..Len(persisted) :
       /\ [flush |-> k, ok |-> FALSE] \in persistEnded
            => PublishedOf(published, k) = <<>>
       /\ IsPrefix(PublishedOf(published, k), persisted[k].batch)

\* C34 witness: the bulk-persist of one flush raised and nothing of it was
\* published; a later flush of a full batch was persisted and published whole
C34_Witness ==
  \E k \in 1..Len(persisted), n \in 1..Len(persisted) :
    /\ [flush |-> k, ok |-> FALSE] \in persistEnded
    /\ k < n
    /\ [flush |-> n, ok |-> TRUE] \in persistEnded
    /\ Len(persisted[n].batch) = BufferSize
    /\ PublishedOf(published, n) = persisted[n].batch

(***************************************************************************)
(* IngestionService.stop: properties                                       *)
(***************************************************************************)

\* C35: stop() awaits the shutdown of the handlers after the consumer task has
\* ended and before it closes the publisher and the repository: a collaborator
\* call of a shutdown finds the runner done, no shutdown has returned while the
\* runner is alive, a closed collaborator means every handler was shut down and
\* both tasks have ended, and every call found its collaborator open.
C35_StopOrder ==
  /\ \A i \in 1..Len(svc_log) :
       /\ svc_log[i].open
       /\ svc_log[i].by = "shutdown" => svc_log[i].runner_done
  /\ svc_shut > 0 => runner_task = "done"
  /\ (~pub_open \/ ~repo_open)
       => /\ svc_shut = ServiceHandlerCount
          /\ runner_task = "done"
          /\ sched_task = "done"
  /\ ~repo_open => ~pub_open

\* C35 witness: stop() is over; a handle() of the consumer task and, later, a
\* shutdown flush have called the repository, both collaborators are closed
C35_Witness ==
  /\ svc_step = Len(StopOrder) + 1
  /\ ~pub_open
  /\ ~repo_open
  /\ \E i \in 1..Len(svc_log), j \in 1..Len(svc_log) :
       /\ i < j
       /\ svc_log[i].by = "consumer"
       /\ svc_log[j].by = "shutdown"

(***************************************************************************)
(* UnusualWhalesClient.fetch_endpoint: properties                          *)
(***************************************************************************)

\* the kinds of what the requests of the last call got
UsedKinds == {uw_used[i].kind : i \in 1..Len(uw_used)}

CancelledNeverDebited ==
  \A i \in CallIds : fut[i] = "cancelled" => i \notin SeqToSet(debitOrder)

\* once its acquire has ended (the finally block ran) it is out of the queue
CancelledLeavesQueue ==
  \A i \in CallIds : fut[i] = "cancelled" /\ status[i] = "done" => i \notin QueuedIds

\* only calls that took the immediate path or whose future got its result are
\* debited
DebitedOnlyIfReleased ==
  \A i \in SeqToSet(debitOrder) : TookFastPath(i) \/ fut[i] = "result"

\* the queue entries from position i on are behind cancelled waiters only
BehindCancelledOnly(ws, f, i) ==
  i > 1 /\ \A k \in 1..(i - 1) : f[ws[k].id] = "cancelled"

\* C37: a waiter cancelled before it was granted never debits tokens, is removed
\* from the wait queue and does not block the waiters behind it: a refill that
\* drains the queue never leaves a pending waiter unserved whose request the
\* tokens cover and that has only cancelled waiters in front of it (every queued
\* request being one the bucket can hold); tokens are debited only for waiters
\* that are released.
C37_CancelledNeverBlocks ==
  [][ /\ CancelledNeverDebited' /\ CancelledLeavesQueue' /\ DebitedOnlyIfReleased'
      /\ last_refill' # last_refill
            => \A i \in 1..Len(waiters') :
                 (/\ \A k \in 1..Len(waiters') : waiters'[k].n \in 1..Capacity
                  /\ waiters'[i].id \in QueuedIds
                  /\ fut'[waiters'[i].id] = "pending"
                  /\ BehindCancelledOnly(waiters', fut', i))
                 => tokens' < waiters'[i].n ]_vars

(***************************************************************************)
(* RestScheduler: the recorded last run                                    *)
(***************************************************************************)

\* the jobs whose _execute_job has returned in this tick
Finished == {Jobs[i] : i \in {k \in 1..Len(Jobs) : k < jidx /\ Jobs[k] \in executed}}

\* C38: the recorded last run of a job whose execution has ended in this tick is
\* the instant the tick read `now`, the same for every job of the tick and
\* whatever the outcome of its requests; such a job was due, so no job is re-run
\* before its cadence has passed since the tick of its previous run; and the
\* recorded last run of every other job is what it was when the tick began.
C38_LastRunIsTickStart ==
  \A j \in JobSet :
    /\ j \in Finished => since[j] = Min(tick_age, Cadence(j))
    /\ j \in executed => gap[j] >= Cadence(j)
    /\ j \notin Finished => since[j] = Min(gap[j] + tick_age, Cadence(j))

\* C38 witness: the last request of job fast was abandoned after three 429
\* responses; the job's last run is the tick's start, more than its cadence ago
\* by now, while the next job of the tick is being looked at
C38_Witness ==
  /\ spc = "jobs"
  /\ jidx = 2
  /\ "fast" \in executed
  /\ reqOutcome = "abandoned"
  /\ tick_age > CadenceFast
  /\ since["fast"] = CadenceFast

(***************************************************************************)
(* OptionTradeHandler: a flush whose bulk-persist raises                   *)
(***************************************************************************)

\* the flushes whose bulk_insert_option_trades call raised
FailedFlushes == {e.flush : e \in {x \in persistEnded : ~x.ok}}

\* the trades of the batch of flush k
BatchTrades(ps, k) == SeqToSet(ps[k].batch)

\* C39: when bulk-persist raises, the batch is gone. In the step in which the
\* call raises the buffer, the flush clock and the call logs stay as they are
\* (the batch is not put back, _last_flush stays at the swap) and the exception
\* leaves _flush, so the caller is out of handle() or shutdown() has failed. From
\* then on no trade of that batch is in the buffer, in another bulk-persist call
\* or in a publish call, while every other accepted trade is in the buffer or in
\* another batch.
C39_FailedBatchDropped ==
  [][ /\ \A k \in FailedFlushes' :
           /\ BatchTrades(persisted', k) \cap SeqToSet(buffer') = {}
           /\ \A g \in 1..Len(persisted') :
                g # k => BatchTrades(persisted', g) \cap BatchTrades(persisted', k) = {}
           /\ BatchTrades(persisted', k) \cap PublishedTrades' = {}
           /\ \A id \in SeqToSet(accepted') \ BatchTrades(persisted', k) :
                \/ id \in SeqToSet(buffer')
                \/ \E g \in 1..Len(persisted') :
                     g # k /\ id \in BatchTrades(persisted', g)
      /\ FailedFlushes' # FailedFlushes
           => /\ buffer' = buffer
              /\ last_flush' = last_flush
              /\ persisted' = persisted
              /\ published' = published
              /\ raisedAny'
              /\ \E t \in {ShutdownCaller} \cup Callers :
                   /\ tpc[t] = "persisting"
                   /\ FailedFlushes' = FailedFlushes \cup {flushOf[t]}
                   /\ tpc'[t] = (IF t = ShutdownCaller THEN "failed" ELSE "idle") ]_vars

\* C39 witness: the bulk-persist call of a full batch raised; a trade accepted
\* afterwards went out in a later batch, which was persisted and published
C39_Witness ==
  \E k \in FailedFlushes, g \in flushDone :
    /\ Len(persisted[k].batch) = BufferSize
    /\ g > k
    /\ persisted[g].batch # <<>>
    /\ PublishedOf(published, g) = persisted[g].batch
    /\ PublishedOf(published, k) = <<>>

(***************************************************************************)
(* OptionTradeHandler: no flush by time alone                              *)
(***************************************************************************)

\* the step is a handle() call whose message did not pass the parse and the
\* ticker filter
DroppedTradeCall == nextTrade' # nextTrade /\ lastTradeMsg' # "target"

\* the step is a handle() call that appended its trade
AcceptedTradeCall == nextTrade' # nextTrade /\ lastTradeMsg' = "target"

\* the step is the call of shutdown()
ShutdownFlushCall == tpc[ShutdownCaller] = "idle" /\ tpc'[ShutdownCaller] # "idle"

\* C40: time alone never flushes. A step in which only time passes, and a
\* handle() call whose message is dropped, leave the buffer, the flush clock and
\* the bulk-persist log as they are, however long ago the last flush was; a
\* bulk-persist call is made only in a step that is an accepted handle() call
\* with the size or the interval threshold met at that call, or shutdown(); a
\* trade leaves the buffer only in such a step; and an accepted handle() call
\* that finds flush_interval elapsed since the last flush passes the whole
\* buffer, its own trade included, to bulk-persist.
C40_NoFlushByTimeAlone ==
  [][ /\ (clock' # clock \/ DroppedTradeCall)
           => buffer' = buffer /\ last_flush' = last_flush /\ persisted' = persisted
      /\ persisted' # persisted
           => \/ /\ AcceptedTradeCall
                 /\ \/ Len(buffer) + 1 >= BufferSize
                    \/ clock - last_flush >= FlushInterval
              \/ ShutdownFlushCall
      /\ SeqToSet(buffer) \subseteq SeqToSet(buffer') \/ persisted' # persisted
      /\ (AcceptedTradeCall /\ clock - last_flush >= FlushInterval)
           => /\ Len(persisted') = Len(persisted) + 1
              /\ SubSeq(persisted', 1, Len(persisted)) = persisted
              /\ persisted'[Len(persisted')].batch = Append(buffer, nextTrade)
              /\ buffer' = <<>>
              /\ last_flush' = clock ]_vars

\* C40 witness: a single trade has been in the buffer for longer than
\* flush_interval, a message of another ticker has been handled, and no
\* bulk-persist call has been made
C40_Witness ==
  /\ Len(buffer) = 1
  /\ clock - last_flush > FlushInterval
  /\ lastTradeMsg = "other"
  /\ nextTrade = 3
  /\ persisted = <<>>
  /\ ~stopping

====
